---- MODULE Spec2Model ----
(***************************************************************************)
(* A model of frump: the Markdown parser and serializer                    *)
(* (src/parser/mod.rs), the validated domain types (src/domain), the git   *)
(* history walks (src/git/repository.rs) and the conflict commands of the  *)
(* command line (src/main.rs).                                             *)
(*                                                                         *)
(* Text is modelled as a sequence of one-character strings, so that        *)
(* trimming, splitting and searching are computed as the code computes     *)
(* them.                                                                   *)
(***************************************************************************)
EXTENDS Integers, Sequences, FiniteSets, TLC

VARIABLES
    mode,       \* which family of operations this behaviour exercises
    pc,         \* position of the running operation
    input,      \* the operation's input (document lines, a task block, a repository)
    work,       \* the operation's local variables while it runs
    result      \* what the operation returned

vars == <<mode, pc, input, work, result>>

\* ------------------------------------------------------------------ text

NL == "\n"

\* char::is_whitespace, restricted to the characters the model uses
IsWs(c) == c \in {" ", "\t", "\n"}

\* char::is_uppercase, restricted to the letters the model uses
IsUpper(c) == c \in {"A", "B", "D", "E", "K", "M", "P", "S", "T"}

\* char::to_uppercase, restricted to the letters of the texts that are parsed
UpperOf(c) ==
    CASE c = "a" -> "A"
      [] c = "b" -> "B"
      [] c = "e" -> "E"
      [] c = "k" -> "K"
      [] c = "m" -> "M"
      [] c = "s" -> "S"
      [] c = "t" -> "T"
      [] OTHER -> c

ToUpper(s) == [i \in 1..Len(s) |-> UpperOf(s[i])]

Drop(s, n) == SubSeq(s, n + 1, Len(s))

Take(s, n) == SubSeq(s, 1, n)

StartsWith(s, p) == Len(s) >= Len(p) /\ Take(s, Len(p)) = p

RECURSIVE TrimStart(_)
TrimStart(s) ==
    IF s # <<>> /\ IsWs(s[1]) THEN TrimStart(Tail(s)) ELSE s

RECURSIVE TrimEnd(_)
TrimEnd(s) ==
    IF s # <<>> /\ IsWs(s[Len(s)]) THEN TrimEnd(Take(s, Len(s) - 1)) ELSE s

Trim(s) == TrimEnd(TrimStart(s))

\* str::trim_start_matches: the prefix is removed as often as it occurs
RECURSIVE TrimStartMatches(_, _)
TrimStartMatches(s, p) ==
    IF StartsWith(s, p) THEN TrimStartMatches(Drop(s, Len(p)), p) ELSE s

\* str::find(char): the first position of c in s (1-based), 0 when absent
Find(s, c) ==
    IF \E i \in 1..Len(s) : s[i] = c
    THEN CHOOSE i \in 1..Len(s) : s[i] = c /\ \A j \in 1..(i - 1) : s[j] # c
    ELSE 0

\* str::splitn(n, ' '): at most n pieces, the last one holding the rest
RECURSIVE SplitN(_, _)
SplitN(s, n) ==
    LET p == Find(s, " ")
    IN  IF n <= 1 \/ p = 0
        THEN <<s>>
        ELSE <<Take(s, p - 1)>> \o SplitN(Drop(s, p), n - 1)

\* str::split(c): all pieces
RECURSIVE Split(_, _)
Split(s, c) ==
    LET p == Find(s, c)
    IN  IF p = 0 THEN <<s>> ELSE <<Take(s, p - 1)>> \o Split(Drop(s, p), c)

\* str::split_whitespace().count()
RECURSIVE WordCount(_)
WordCount(s) ==
    LET t == TrimStart(s)
    IN  IF t = <<>>
        THEN 0
        ELSE LET ends == {i \in 1..Len(t) : IsWs(t[i])}
                 e == IF ends = {} THEN Len(t) + 1
                      ELSE CHOOSE i \in ends : \A j \in ends : i <= j
             IN  1 + WordCount(Drop(t, e - 1))

\* str::lines(): split at "\n"; a final line ending adds no empty line
Lines(content) ==
    IF content = <<>>
    THEN <<>>
    ELSE LET parts == Split(content, NL)
         IN  IF parts[Len(parts)] = <<>> THEN Take(parts, Len(parts) - 1) ELSE parts

\* [&str]::join(sep)
RECURSIVE Join(_, _)
Join(ss, sep) ==
    IF ss = <<>> THEN <<>>
    ELSE IF Len(ss) = 1 THEN ss[1]
    ELSE ss[1] \o sep \o Join(Tail(ss), sep)

\* every line followed by a line ending: the text of a file with these lines
RECURSIVE Unlines(_)
Unlines(ss) ==
    IF ss = <<>> THEN <<>> ELSE ss[1] \o <<NL>> \o Unlines(Tail(ss))

\* ---------------------------------------------------------- value types

\* The largest value of the identifier type. The code's u32 ends at
\* 4294967295, which TLC's integers cannot hold; the model keeps the type's
\* behaviour (parse overflow, wrap-around of + 1) at a narrower width.
U32Max == 255

Digits == <<"0", "1", "2", "3", "4", "5", "6", "7", "8", "9">>

IsDigit(c) == \E d \in 1..10 : Digits[d] = c

DigitVal(c) == (CHOOSE d \in 1..10 : Digits[d] = c) - 1

RECURSIVE DecimalValue(_)
DecimalValue(s) ==
    IF s = <<>> THEN 0
    ELSE 10 * DecimalValue(Take(s, Len(s) - 1)) + DigitVal(s[Len(s)])

\* str::parse::<u32>: an optional "+", then one or more digits, no overflow;
\* -1 stands for Err
ParseU32(s) ==
    LET d == IF s # <<>> /\ s[1] = "+" THEN Tail(s) ELSE s
    IN  IF d = <<>> \/ \E i \in 1..Len(d) : ~IsDigit(d[i])
        THEN -1
        ELSE IF DecimalValue(d) > U32Max THEN -1 ELSE DecimalValue(d)

\* Display for u32
RECURSIVE Decimal(_)
Decimal(n) ==
    IF n < 10 THEN <<Digits[n + 1]>>
    ELSE Decimal(n \div 10) \o <<Digits[(n % 10) + 1]>>

\* TaskId::new: Ok iff the value is not 0
TaskIdNewOk(n) == n # 0

\* TaskId::next: self.0 + 1 in u32 arithmetic (the wrapping build)
TaskIdNext(n) == (n + 1) % (U32Max + 1)

\* The two ways the build treats "self.0 + 1" when the sum does not fit the
\* type: with overflow checks (the dev profile) the addition panics, without
\* them (the release profile) it wraps around.
Builds == {"overflow-checks", "wrapping"}

\* self.0 + 1 does not fit the identifier type
TaskIdNextOverflows(n) == n + 1 > U32Max

\* PropertyKeyNewOk with the word limit one too high
PropertyKeyNewOkFour(key) ==
    /\ key # <<>>
    /\ IsUpper(key[1])
    /\ WordCount(key) <= 4
    /\ WordCount(key) # 0

\* PropertyKey::new: Ok iff the first character is uppercase and the key has
\* one to three whitespace-separated words
PropertyKeyNewOk(key) ==
    /\ key # <<>>
    /\ IsUpper(key[1])
    /\ WordCount(key) <= 3
    /\ WordCount(key) # 0

\* EmailNew without the trim of its argument
EmailNewUntrimmed(email) ==
    LET parts == Split(email, "@")
    IN  IF Find(email, "@") = 0 THEN [ok |-> FALSE, value |-> <<>>]
        ELSE IF Len(parts) # 2 THEN [ok |-> FALSE, value |-> <<>>]
        ELSE IF parts[1] = <<>> \/ parts[2] = <<>> THEN [ok |-> FALSE, value |-> <<>>]
        ELSE [ok |-> TRUE, value |-> email]

\* Email::new: the trimmed text must hold exactly one "@" with text on both sides
EmailNew(email) ==
    LET e == Trim(email)
        parts == Split(e, "@")
    IN  IF Find(e, "@") = 0 THEN [ok |-> FALSE, value |-> <<>>]
        ELSE IF Len(parts) # 2 THEN [ok |-> FALSE, value |-> <<>>]
        ELSE IF parts[1] = <<>> \/ parts[2] = <<>> THEN [ok |-> FALSE, value |-> <<>>]
        ELSE [ok |-> TRUE, value |-> e]

KnownTypes == {<<"T", "a", "s", "k">>, <<"B", "u", "g">>,
               <<"I", "s", "s", "u", "e">>,
               <<"F", "e", "a", "t", "u", "r", "e">>}

\* TaskType::parse: the four known names, or Custom carrying the token
TaskTypeParse(s) ==
    IF s \in KnownTypes
    THEN [tag |-> s, custom |-> <<>>]
    ELSE [tag |-> <<"C", "u", "s", "t", "o", "m">>, custom |-> s]

\* TaskType::as_str
TaskTypeAsStr(t) == IF t.tag \in KnownTypes THEN t.tag ELSE t.custom

\* Task::new: empty body, no properties
TaskNew(id, task_type, subject) ==
    [id |-> id, task_type |-> task_type, subject |-> subject,
     body |-> <<>>, properties |-> <<>>]

\* ---------------------------------------------------------- parser

H2 == <<"#", "#", " ">>
H3 == <<"#", "#", "#", " ">>
DashSp == <<"-", " ">>
StarSp == <<"*", " ">>
TeamHdr == <<"#", "#", " ", "T", "E", "A", "M">>
TasksHdr == <<"#", "#", " ", "T", "A", "S", "K", "S">>

\* try_parse_property: <<>> for None, <<[key, value]>> for Some
TryParseProperty(line) ==
    LET colon_pos == Find(line, ":")
    IN  IF colon_pos = 0 THEN <<>>
        ELSE LET key_str == Trim(Take(line, colon_pos - 1))
                 value == Trim(Drop(line, colon_pos))
             IN  IF PropertyKeyNewOk(key_str)
                 THEN <<[key |-> key_str, value |-> value]>>
                 ELSE <<>>

\* the locals of parse_task's loop before its first line
BlockStart == [in_body |-> TRUE, body_lines |-> <<>>, properties |-> <<>>]

\* BlockLine without the in_body test on its last branch: a line that is no
\* property is body text also after the latch
BlockLineNoLatch(st, line) ==
    LET trimmed == Trim(line)
        prop == TryParseProperty(trimmed)
    IN  IF trimmed = <<>>
        THEN IF st.in_body /\ st.body_lines # <<>>
             THEN [st EXCEPT !.body_lines = Append(@, <<>>)]
             ELSE st
        ELSE IF prop # <<>>
        THEN [st EXCEPT !.in_body = FALSE, !.properties = Append(@, prop[1])]
        ELSE [st EXCEPT !.body_lines = Append(@, trimmed)]

\* one iteration of parse_task's loop over the lines after the heading
BlockLine(st, line) ==
    LET trimmed == Trim(line)
        prop == TryParseProperty(trimmed)
    IN  IF trimmed = <<>>
        THEN IF st.in_body /\ st.body_lines # <<>>
             THEN [st EXCEPT !.body_lines = Append(@, <<>>)]
             ELSE st
        ELSE IF prop # <<>>
        THEN [st EXCEPT !.in_body = FALSE, !.properties = Append(@, prop[1])]
        ELSE IF st.in_body
        THEN [st EXCEPT !.body_lines = Append(@, trimmed)]
        ELSE st

RECURSIVE BlockLines(_, _)
BlockLines(st, lines) ==
    IF lines = <<>> THEN st ELSE BlockLines(BlockLine(st, lines[1]), Tail(lines))

\* BlockBody without the final trim
BlockBodyUntrimmed(st) == Join(st.body_lines, <<NL>>)

\* the body parse_task stores: the body lines joined and trimmed
BlockBody(st) == Trim(Join(st.body_lines, <<NL>>))

\* parse_task's heading: [ok, task], the task as Task::new leaves it
ParseHeading(line0) ==
    LET heading == Trim(TrimStartMatches(line0, H3))
        parts == SplitN(heading, 3)
        none == [ok |-> FALSE, task |-> <<>>]
    IN  IF Len(parts) < 2 THEN none
        ELSE LET n == ParseU32(parts[2])
             IN  IF n = -1 \/ ~TaskIdNewOk(n) THEN none
                 ELSE [ok |-> TRUE,
                       task |-> TaskNew(n, TaskTypeParse(parts[1]),
                                   IF Len(parts) > 2
                                   THEN Trim(TrimStartMatches(parts[3], DashSp))
                                   ELSE <<>>)]

\* parse_task on a block (heading line first): [ok, task]
ParseTask(lines) ==
    LET h == ParseHeading(lines[1])
        st == BlockLines(BlockStart, Tail(lines))
    IN  IF ~h.ok THEN h
        ELSE [ok |-> TRUE,
              task |-> [h.task EXCEPT !.properties = st.properties,
                                      !.body = BlockBody(st)]]

\* parse_team_member on a trimmed member line:
\* [kind |-> "none" | "err" | "panic" | "some", member]
ParseTeamMember(line0) ==
    LET line == TrimStartMatches(TrimStartMatches(line0, StarSp), DashSp)
        lt == Find(line, "<")
        gt == Find(line, ">")
        no(k) == [kind |-> k, member |-> <<>>]
    IN  IF lt = 0 \/ gt = 0 THEN no("none")
        ELSE IF gt < lt THEN no("panic")   \* line[email_start + 1..email_end]
        ELSE LET email == EmailNew(SubSeq(line, lt + 1, gt - 1))
                 remainder == Trim(Drop(line, gt))
             IN  IF ~email.ok THEN no("err")
                 ELSE [kind |-> "some",
                       member |-> [name |-> Trim(Take(line, lt - 1)),
                                   email |-> email.value,
                                   role |-> IF gt < Len(line) /\ remainder # <<>>
                                               /\ remainder[1] = "-"
                                            THEN <<Trim(Tail(remainder))>>
                                            ELSE <<>>]]

IsTeamHeader(line) == StartsWith(ToUpper(Trim(line)), TeamHdr)

IsTasksHeader(line) == StartsWith(ToUpper(Trim(line)), TasksHdr)

\* parse's first loop: the index of the first "## Team" or "## Tasks" line,
\* Len(lines) + 1 when there is none
RECURSIVE HeaderEnd(_, _)
HeaderEnd(lines, i) ==
    IF i > Len(lines) \/ IsTeamHeader(lines[i]) \/ IsTasksHeader(lines[i])
    THEN i
    ELSE HeaderEnd(lines, i + 1)

\* parse's team loop from line i: [kind |-> "ok" | "err" | "panic", members, i]
RECURSIVE TeamLoop(_, _, _)
TeamLoop(lines, i, members) ==
    IF i > Len(lines) \/ StartsWith(Trim(lines[i]), H2)
    THEN [kind |-> "ok", members |-> members, i |-> i]
    ELSE LET line == Trim(lines[i])
         IN  IF StartsWith(line, StarSp) \/ StartsWith(line, DashSp)
             THEN LET m == ParseTeamMember(line)
                  IN  IF m.kind \in {"err", "panic"}
                      THEN [kind |-> m.kind, members |-> members, i |-> i]
                      ELSE TeamLoop(lines, i + 1,
                                    IF m.kind = "some"
                                    THEN Append(members, m.member) ELSE members)
             ELSE TeamLoop(lines, i + 1, members)

\* the end of the task block whose heading is line i - 1: the next "### " line
RECURSIVE BlockEnd(_, _)
BlockEnd(lines, i) ==
    IF i > Len(lines) \/ StartsWith(Trim(lines[i]), H3)
    THEN i
    ELSE BlockEnd(lines, i + 1)

\* parse's task loop from line i: [kind |-> "ok" | "err", tasks]
RECURSIVE TasksLoop(_, _, _)
TasksLoop(lines, i, tasks) ==
    IF i > Len(lines) THEN [kind |-> "ok", tasks |-> tasks]
    ELSE IF StartsWith(Trim(lines[i]), H3)
    THEN LET e == BlockEnd(lines, i + 1)
             t == ParseTask(SubSeq(lines, i, e - 1))
         IN  IF ~t.ok THEN [kind |-> "err", tasks |-> tasks]
             ELSE TasksLoop(lines, e, Append(tasks, t.task))
    ELSE TasksLoop(lines, i + 1, tasks)

\* parse's team section from the line the header loop stopped at
TeamSection(lines, h) ==
    IF h <= Len(lines) /\ IsTeamHeader(lines[h])
    THEN TeamLoop(lines, h + 1, <<>>)
    ELSE [kind |-> "ok", members |-> <<>>, i |-> h]

\* parse's tasks section from the line the team section stopped at
TasksSection(lines, i) ==
    IF i <= Len(lines) /\ IsTasksHeader(lines[i])
    THEN TasksLoop(lines, i + 1, <<>>)
    ELSE [kind |-> "ok", tasks |-> <<>>]

\* parse's result: the first failure of a section, or Ok(FrumpDoc::new(..))
ParseResult(header, team, tasks) ==
    IF team.kind # "ok" \/ tasks.kind # "ok"
    THEN [kind |-> IF team.kind # "ok" THEN team.kind ELSE tasks.kind,
          header |-> <<>>, team |-> <<>>, tasks |-> <<>>]
    ELSE [kind |-> "ok", header |-> header,
          team |-> team.members, tasks |-> tasks.tasks]

\* parse after the team section; the tasks section is read only if the team
\* section did not fail
ParseAfterTeam(lines, header, team) ==
    ParseResult(header, team,
                IF team.kind = "ok" THEN TasksSection(lines, team.i)
                ELSE [kind |-> "ok", tasks |-> <<>>])

\* parse after the header loop stopped at line h
ParseAfterHeader(lines, h) ==
    ParseAfterTeam(lines, Unlines(Take(lines, h - 1)), TeamSection(lines, h))

ParseLines(lines) == ParseAfterHeader(lines, HeaderEnd(lines, 1))

\* parser::parse: [kind |-> "ok" | "err" | "panic", header, team, tasks]
Parse(content) == ParseLines(Lines(content))

SerializeMember(m) ==
    StarSp \o m.name \o <<" ", "<">> \o m.email \o <<">">>
    \o (IF m.role # <<>> THEN <<" ", "-", " ">> \o m.role[1] ELSE <<>>)
    \o <<NL>>

RECURSIVE SerializeProps(_)
SerializeProps(ps) ==
    IF ps = <<>> THEN <<>>
    ELSE ps[1].key \o <<":", " ">> \o ps[1].value \o <<NL>> \o SerializeProps(Tail(ps))

SerializeTask(t) ==
    H3 \o TaskTypeAsStr(t.task_type) \o <<" ">> \o Decimal(t.id)
    \o <<" ", "-", " ">> \o t.subject \o <<NL>>
    \o (IF t.body # <<>> THEN <<NL>> \o Trim(t.body) \o <<NL>> ELSE <<>>)
    \o (IF t.properties # <<>>
        THEN (IF t.body # <<>> THEN <<NL>> ELSE <<>>) \o SerializeProps(t.properties)
        ELSE <<>>)
    \o <<NL>>

RECURSIVE SerializeMembers(_)
SerializeMembers(ms) ==
    IF ms = <<>> THEN <<>> ELSE SerializeMember(ms[1]) \o SerializeMembers(Tail(ms))

RECURSIVE SerializeTasks(_)
SerializeTasks(ts) ==
    IF ts = <<>> THEN <<>> ELSE SerializeTask(ts[1]) \o SerializeTasks(Tail(ts))

\* parser::serialize
Serialize(doc) ==
    doc.header
    \o (IF doc.team # <<>>
        THEN <<"#", "#", " ", "T", "e", "a", "m", NL, NL>>
             \o SerializeMembers(doc.team) \o <<NL>>
        ELSE <<>>)
    \o <<"#", "#", " ", "T", "a", "s", "k", "s", NL, NL>>
    \o SerializeTasks(doc.tasks)

\* ------------------------------------------------- documents (inputs)

\* the longest document, in lines
MaxDocLines == 4

\* the lines documents are made of
DocLinePool ==
    { <<"#", "#", " ", "T", "a", "s", "k", "s">>,             \* ## Tasks
      <<"#", "#", " ", "t", "e", "a", "m">>,                  \* ## team
      <<"#", "#", " ", "A">>,                                 \* ## A
      <<"#", "#", "#", " ", "T", " ", "1">>,                  \* ### T 1
      <<"#", "#", "#", " ", "B", " ", "2", " ", "-", " ", " ", "-", " ", "a">>,
                                                              \* ### B 2 -  - a
      <<"#", "#", "#", " ", "T", " ", "0">>,                  \* ### T 0
      <<"*", " ", "a", " ", "<", "a", "@", "b", ">", " ", "-", " ", "b">>,
                                                              \* * a <a@b> - b
      <<"-", " ", " ", "-", " ", "a", "<", "a", "@", "b", ">">>,
                                                              \* -  - a<a@b>
      <<"*", " ", ">", "<">>,                                 \* * ><
      <<"S", ":", " ", "a">>,                                 \* S: a
      <<" ", "b">>,                                           \*  b
      <<>> }

RECURSIVE SeqsUpTo(_, _)
SeqsUpTo(S, n) ==
    IF n = 0 THEN {<<>>}
    ELSE LET shorter == SeqsUpTo(S, n - 1)
         IN  shorter \cup {Append(q, x) : q \in {r \in shorter : Len(r) = n - 1}, x \in S}

Documents == SeqsUpTo(DocLinePool, MaxDocLines)

\* ------------------------------------------- parse / serialize / parse

NoDoc == [kind |-> "none"]

InitDoc ==
    /\ mode = "doc"
    /\ pc = "start"
    /\ input \in Documents
    /\ work = <<>>
    /\ result = [first |-> NoDoc, second |-> NoDoc]

\* parser::parse on the text of the input lines
DocParse ==
    /\ mode = "doc" /\ pc = "start"
    /\ result' = [result EXCEPT !.first = Parse(Unlines(input))]
    /\ pc' = "parsed"
    /\ UNCHANGED <<mode, input, work>>

\* parser::serialize on the parsed document
DocSerialize ==
    /\ mode = "doc" /\ pc = "parsed"
    /\ result.first.kind = "ok"
    /\ work' = Serialize(result.first)
    /\ pc' = "serialized"
    /\ UNCHANGED <<mode, input, result>>

\* parser::parse on the serialized text
DocReparse ==
    /\ mode = "doc" /\ pc = "serialized"
    /\ result' = [result EXCEPT !.second = Parse(work)]
    /\ pc' = "reparsed"
    /\ UNCHANGED <<mode, input, work>>

NextDoc == DocParse \/ DocSerialize \/ DocReparse

SpecDoc == InitDoc /\ [][NextDoc]_vars

\* C1: for every text on which parse succeeds, parsing the serialized document
\* succeeds again and yields the same team and the same task list.
RoundTripLaw ==
    (mode = "doc" /\ pc = "reparsed") =>
        /\ result.second.kind = "ok"
        /\ result.second.team = result.first.team
        /\ result.second.tasks = result.first.tasks

\* --------------------------------------------- task blocks (inputs)

\* the most lines a task block has after its heading
MaxBlockLines == 4

HeadingPool ==
    { <<"#", "#", "#", " ", "T", " ", "1", " ", "-", " ", "a">>,   \* ### T 1 - a
      <<"#", "#", "#", " ", "T", " ", "1">>,                       \* ### T 1
      <<"#", "#", "#", " ", "T", " ", "0">> }                      \* ### T 0

BlockLinePool ==
    { <<" ", "b", " ">>,                                   \* " b "
      <<"c">>,                                            \* c
      <<>>,                                               \* empty line
      <<" ">>,                                            \* " "
      <<"S", ":", " ", "a">>,                             \* S: a
      <<"T", " ", ":", "b">>,                             \* T :b
      <<"s", ":", " ", "a">>,                             \* s: a
      <<"A", " ", "b", " ", "c", " ", "d", ":", "e">> }   \* A b c d:e

Blocks ==
    {<<h>> \o ls : h \in HeadingPool, ls \in SeqsUpTo(BlockLinePool, MaxBlockLines)}

\* ------------------------------------------- parse_task, line by line

InitBlock ==
    /\ mode = "block"
    /\ pc = "heading"
    /\ input \in Blocks
    /\ work = <<>>
    /\ result = <<>>

\* parse_task up to Task::new: the heading is split and validated
BlockHeading ==
    /\ mode = "block" /\ pc = "heading"
    /\ LET h == ParseHeading(input[1])
       IN  IF h.ok
           THEN /\ work' = [i |-> 2, st |-> BlockStart, task |-> h.task]
                /\ pc' = "lines"
           ELSE /\ work' = work
                /\ pc' = "failed"
    /\ UNCHANGED <<mode, input, result>>

\* one iteration of "for line in &lines[1..]"
BlockStep ==
    /\ mode = "block" /\ pc = "lines"
    /\ work.i <= Len(input)
    /\ work' = [work EXCEPT !.i = @ + 1, !.st = BlockLine(@, input[work.i])]
    /\ UNCHANGED <<mode, pc, input, result>>

\* after the loop: the body is joined, trimmed and stored; Ok(Some(task))
BlockFinish ==
    /\ mode = "block" /\ pc = "lines"
    /\ work.i > Len(input)
    /\ result' = [work.task EXCEPT !.properties = work.st.properties,
                                   !.body = BlockBody(work.st)]
    /\ pc' = "done"
    /\ UNCHANGED <<mode, input, work>>

NextBlock == BlockHeading \/ BlockStep \/ BlockFinish

SpecBlock == InitBlock /\ [][NextBlock]_vars

\* ---- the latch and the body, stated over the block's lines

IsBlank(line) == Trim(line) = <<>>

IsPropLine(line) == TryParseProperty(Trim(line)) # <<>>

\* the position in the block of the first property line, Len + 1 without one
LatchAt(block) ==
    IF \E j \in 2..Len(block) : IsPropLine(block[j])
    THEN CHOOSE j \in 2..Len(block) :
            IsPropLine(block[j]) /\ \A k \in 2..(j - 1) : ~IsPropLine(block[k])
    ELSE Len(block) + 1

\* the properties of the well-formed lines, in source order
RECURSIVE PropsOf(_)
PropsOf(lines) ==
    IF lines = <<>> THEN <<>>
    ELSE (IF IsPropLine(lines[1]) THEN TryParseProperty(Trim(lines[1])) ELSE <<>>)
         \o PropsOf(Tail(lines))

RECURSIVE DropLeadingBlank(_)
DropLeadingBlank(lines) ==
    IF lines # <<>> /\ IsBlank(lines[1]) THEN DropLeadingBlank(Tail(lines)) ELSE lines

\* the lines before the latch, from the first non-blank one
BodyPart(block) == DropLeadingBlank(SubSeq(block, 2, LatchAt(block) - 1))

Min(a, b) == IF a < b THEN a ELSE b

BodyVerbatim ==
    (mode = "block" /\ pc = "done") =>
        LET part == BodyPart(input)
        IN  result.body =
               Trim(Join([j \in 1..Len(part) |->
                            IF IsBlank(part[j]) THEN <<>> ELSE part[j]], <<NL>>))

\* C10, amended: the body is the non-blank lines read in body mode, each
\* trimmed of its own leading and trailing whitespace, and one empty line for
\* every blank line after the first body line, joined by newlines, the whole
\* trimmed at its two ends.
BodyTrimmedLines ==
    (mode = "block" /\ pc = "done") =>
        LET part == BodyPart(input)
        IN  result.body =
               Trim(Join([j \in 1..Len(part) |-> Trim(part[j])], <<NL>>))

\* a body of two paragraphs is assembled, one of its lines written with
\* whitespace around it, and a blank line follows the last body line
BodyTrimmedLinesWitness ==
    /\ mode = "block" /\ pc = "done"
    /\ LET part == BodyPart(input)
       IN  /\ Len(part) >= 4
           /\ ~IsBlank(part[1]) /\ IsBlank(part[2]) /\ ~IsBlank(part[3])
           /\ IsBlank(part[4])
           /\ \E j \in {1, 3} : part[j] # Trim(part[j])
    /\ Find(result.body, NL) # 0

\* ------------------------------------------------ repositories (inputs)

\* the most revisions a history has
MaxRevs == 3

TasksLine == <<"#", "#", " ", "T", "a", "s", "k", "s">>
LineT1a == <<"#", "#", "#", " ", "T", " ", "1", " ", "-", " ", "a">>
LineB1b == <<"#", "#", "#", " ", "B", " ", "1", " ", "-", " ", "b">>
LineT2a == <<"#", "#", "#", " ", "T", " ", "2", " ", "-", " ", "a">>
LineT3c == <<"#", "#", "#", " ", "T", " ", "3", " ", "-", " ", "c">>
LineT0 == <<"#", "#", "#", " ", "T", " ", "0">>
TeamLine == <<"#", "#", " ", "T", "e", "a", "m">>
LineBadMember == <<"*", " ", ">", "<">>

File(lines) == [found |-> TRUE, lines |-> lines]

\* what frump.md holds at a revision: nothing (the file is not in the tree),
\* or its lines
SnapshotPool ==
    { [found |-> FALSE, lines |-> <<>>],
      File(<<TasksLine>>),
      File(<<TasksLine, LineT0>>),                  \* parse returns Err
      File(<<TeamLine, LineBadMember>>),            \* parse panics
      File(<<TasksLine, LineT1a>>),
      File(<<TasksLine, LineB1b, LineT1a>>),
      File(<<TasksLine, LineT2a, LineT3c>>) }

\* the working copy of frump.md
CurrentPool ==
    { <<TasksLine>>,
      <<TasksLine, LineT0>>,
      <<TasksLine, LineT2a>>,
      <<TasksLine, LineB1b, LineT3c>> }

\* the identifiers task_history is asked about
QueryIds == {1, 2}

Histories == SeqsUpTo(SnapshotPool, MaxRevs)

\* ------------------------------------------------------ history walks

Reverse(q) == [i \in 1..Len(q) |-> q[Len(q) + 1 - i]]

\* The order in which the revwalk yields the revisions of a linear history
\* (revs is oldest first): Sort::TIME and the default sorting are newest
\* first, Sort::TIME | Sort::REVERSE is oldest first. Each entry keeps the
\* revision's position in the history as its name.
RevWalk(op, revs) ==
    LET named == [i \in 1..Len(revs) |-> [rev |-> i, snap |-> revs[i]]]
    IN  IF op = "task_history" THEN named ELSE Reverse(named)

\* read_file_at_commit, then parser::parse:
\* [kind |-> "absent" | "err" | "panic" | "ok", tasks, ..]
ReadAndParse(snap) ==
    IF snap.found
    THEN Parse(Unlines(snap.lines))
    ELSE [kind |-> "absent", tasks |-> <<>>]

\* MaxIdOver with the comparison dropped: the last identifier seen is kept
MaxIdOverLast(max_id, tasks) ==
    IF tasks = <<>> THEN max_id ELSE <<tasks[Len(tasks)].id>>

\* max_historical_id's inner loop over the tasks of one snapshot;
\* max_id is <<>> for None, <<id>> for Some
RECURSIVE MaxIdOver(_, _)
MaxIdOver(max_id, tasks) ==
    IF tasks = <<>> THEN max_id
    ELSE MaxIdOver(IF max_id = <<>> \/ tasks[1].id > max_id[1]
                   THEN <<tasks[1].id>> ELSE max_id,
                   Tail(tasks))

\* TaskCollection::find_by_id(id).is_some()
HasTask(tasks, id) == \E i \in 1..Len(tasks) : tasks[i].id = id

\* HistoryStep without "task_exists_in_previous = task_exists" taking effect
\* on a Deleted event: the flag stays set
HistoryStepStale(st, id, rev, doc) ==
    LET task_exists == doc.kind = "ok" /\ HasTask(doc.tasks, id)
        change_type ==
            IF task_exists /\ ~st.prev THEN <<"Created">>
            ELSE IF ~task_exists /\ st.prev THEN <<"Deleted">>
            ELSE IF task_exists /\ st.prev THEN <<"Modified">>
            ELSE <<>>
    IN  [prev |-> task_exists \/ st.prev,
         commits |-> IF change_type # <<>>
                     THEN Append(st.commits,
                                 [hash |-> rev, change_type |-> change_type[1]])
                     ELSE st.commits]

\* HistoryStep without "task_exists_in_previous = task_exists" at all: the
\* flag keeps the value it had
HistoryStepNoFlag(st, id, rev, doc) ==
    LET task_exists == doc.kind = "ok" /\ HasTask(doc.tasks, id)
        change_type ==
            IF task_exists /\ ~st.prev THEN <<"Created">>
            ELSE IF ~task_exists /\ st.prev THEN <<"Deleted">>
            ELSE IF task_exists /\ st.prev THEN <<"Modified">>
            ELSE <<>>
    IN  [prev |-> st.prev,
         commits |-> IF change_type # <<>>
                     THEN Append(st.commits,
                                 [hash |-> rev, change_type |-> change_type[1]])
                     ELSE st.commits]

\* task_history's loop body for one revision; st = [prev, commits]
HistoryStep(st, id, rev, doc) ==
    LET task_exists == doc.kind = "ok" /\ HasTask(doc.tasks, id)
        change_type ==
            IF task_exists /\ ~st.prev THEN <<"Created">>
            ELSE IF ~task_exists /\ st.prev THEN <<"Deleted">>
            ELSE IF task_exists /\ st.prev THEN <<"Modified">>
            ELSE <<>>
    IN  [prev |-> task_exists,
         commits |-> IF change_type # <<>>
                     THEN Append(st.commits,
                                 [hash |-> rev, change_type |-> change_type[1]])
                     ELSE st.commits]

\* RememberTasks without the contains_key test: the last occurrence wins
RECURSIVE RememberTasksLast(_, _)
RememberTasksLast(st, tasks) ==
    IF tasks = <<>> THEN st
    ELSE LET t == tasks[1]
         IN  RememberTasksLast(
                [all |-> st.all \cup {t.id},
                 info |-> [x \in (DOMAIN st.info) \cup {t.id} |->
                             IF x = t.id
                             THEN [task_type |-> t.task_type, subject |-> t.subject]
                             ELSE st.info[x]]],
                Tail(tasks))

\* deleted_tasks' inner loop over the tasks of one snapshot;
\* st = [all, info]: all_historical_tasks and task_info_map
RECURSIVE RememberTasks(_, _)
RememberTasks(st, tasks) ==
    IF tasks = <<>> THEN st
    ELSE LET t == tasks[1]
         IN  RememberTasks(
                [all |-> st.all \cup {t.id},
                 info |-> IF t.id \in DOMAIN st.info
                          THEN st.info
                          ELSE st.info @@
                               (t.id :> [task_type |-> t.task_type,
                                         subject |-> t.subject])],
                Tail(tasks))

TaskIds(tasks) == {tasks[i].id : i \in 1..Len(tasks)}

\* the elements of a set of identifiers in ascending order (sort_by_key)
RECURSIVE SortIds(_)
SortIds(S) ==
    IF S = {} THEN <<>>
    ELSE LET m == CHOOSE x \in S : \A y \in S : x <= y
         IN  <<m>> \o SortIds(S \ {m})

\* DeletedList with the test on current_tasks inverted
DeletedListInverted(st, current_tasks) ==
    LET ids == SortIds({id \in st.all : id \in current_tasks /\ id \in DOMAIN st.info})
    IN  [i \in 1..Len(ids) |->
            [id |-> ids[i], task_type |-> st.info[ids[i]].task_type,
             subject |-> st.info[ids[i]].subject]]

\* deleted_tasks after its walk: historical minus current, sorted by id
DeletedList(st, current_tasks) ==
    LET ids == SortIds({id \in st.all : id \notin current_tasks /\ id \in DOMAIN st.info})
    IN  [i \in 1..Len(ids) |->
            [id |-> ids[i], task_type |-> st.info[ids[i]].task_type,
             subject |-> st.info[ids[i]].subject]]

EmptyMap == [x \in {} |-> <<>>]

\* the locals of an operation when its walk starts
WalkStart(op) ==
    IF op = "max_historical_id" THEN [max_id |-> <<>>]
    ELSE IF op = "task_history" THEN [prev |-> FALSE, commits |-> <<>>]
    ELSE [all |-> {}, info |-> EmptyMap]

\* the loop body of an operation for one revision whose document was read
\* and parsed (a document that was not is skipped)
WalkVisit(op, st, id, rev, doc) ==
    IF op = "task_history" THEN HistoryStep(st, id, rev, doc)
    ELSE IF doc.kind # "ok" THEN st
    ELSE IF op = "max_historical_id" THEN [max_id |-> MaxIdOver(st.max_id, doc.tasks)]
    ELSE RememberTasks(st, doc.tasks)

\* what an operation returns after its walk
WalkValue(op, st, current_tasks) ==
    IF op = "max_historical_id" THEN st.max_id
    ELSE IF op = "task_history" THEN st.commits
    ELSE DeletedList(st, current_tasks)

\* the calls: an operation, a history, and the operation's own input
Calls ==
    {[op |-> "max_historical_id", revs |-> revs, task_id |-> 1,
      current |-> <<TasksLine>>] : revs \in Histories}
    \cup {[op |-> "task_history", revs |-> revs, task_id |-> id,
           current |-> <<TasksLine>>] : revs \in Histories, id \in QueryIds}
    \cup {[op |-> "deleted_tasks", revs |-> revs, task_id |-> 1,
           current |-> cur] : revs \in Histories, cur \in CurrentPool}

InitHist ==
    /\ mode = "hist"
    /\ pc = "call"
    /\ input \in Calls
    /\ work = <<>>
    /\ result = [kind |-> "none"]

\* up to the revwalk, given the parsed working copy
WalkBeginWith(cur) ==
    IF input.op = "deleted_tasks" /\ cur.kind # "ok"
    THEN /\ pc' = "returned"
         /\ result' = [kind |-> "err"]
         /\ work' = work
    ELSE /\ pc' = "walk"
         /\ work' = [i |-> 1, st |-> WalkStart(input.op),
                     current_tasks |-> TaskIds(cur.tasks)]
         /\ result' = result

\* up to the revwalk: deleted_tasks first reads and parses the working copy
\* (a failure is returned); each operation then sets up its locals
WalkBegin ==
    /\ mode = "hist" /\ pc = "call"
    /\ WalkBeginWith(IF input.op = "deleted_tasks"
                     THEN Parse(Unlines(input.current))
                     ELSE [kind |-> "ok", tasks |-> <<>>])
    /\ UNCHANGED <<mode, input>>

\* the loop body for revision rev, given what reading and parsing gave
WalkStepWith(rev, doc) ==
    IF doc.kind = "panic"
    THEN /\ pc' = "panicked"
         /\ work' = work
    ELSE /\ pc' = pc
         /\ work' = [work EXCEPT
                       !.i = @ + 1,
                       !.st = WalkVisit(input.op, @, input.task_id, rev, doc)]

\* the revision the walk is at
WalkAt == RevWalk(input.op, input.revs)[work.i]

\* one iteration of "for oid in revwalk"; a panic inside parse ends the process
WalkStep ==
    /\ mode = "hist" /\ pc = "walk"
    /\ work.i <= Len(input.revs)
    /\ WalkStepWith(WalkAt.rev, ReadAndParse(WalkAt.snap))
    /\ UNCHANGED <<mode, input, result>>

\* after the loop: Ok(max_id), Ok(TaskHistory { .. }) or Ok(deleted)
WalkReturn ==
    /\ mode = "hist" /\ pc = "walk"
    /\ work.i > Len(input.revs)
    /\ result' = [kind |-> "ok",
                  value |-> WalkValue(input.op, work.st, work.current_tasks)]
    /\ pc' = "returned"
    /\ UNCHANGED <<mode, input, work>>

NextHist == WalkBegin \/ WalkStep \/ WalkReturn

SpecHist == InitHist /\ [][NextHist]_vars

\* ---- the history walks, stated over the history

\* the tasks of a revision whose document can be fetched and parses
SnapTasks(snap) ==
    IF ReadAndParse(snap).kind = "ok" THEN ReadAndParse(snap).tasks ELSE <<>>

\* the identifiers in the parseable snapshots of a history
HistoricalIds(revs) == UNION {TaskIds(SnapTasks(revs[k])) : k \in 1..Len(revs)}

\* whether the identifier is present at revision k (never before the first)
PresentAt(revs, id, k) == k >= 1 /\ HasTask(SnapTasks(revs[k]), id)

Returned(op) ==
    mode = "hist" /\ input.op = op /\ pc = "returned" /\ result.kind = "ok"

\* C2: the timeline task_history returns holds exactly one event for every
\* revision at which the identifier is present or was present just before,
\* and none for any other revision; the event is Created on absent -> present,
\* Modified on present -> present, Deleted on present -> absent; the events
\* are in revision order (oldest first); an identifier never present gives an
\* empty timeline.
TaskHistoryEvents ==
    Returned("task_history") =>
        LET revs == input.revs
            id == input.task_id
            c == result.value
        IN  /\ \A k \in 1..Len(revs) :
                  Cardinality({e \in 1..Len(c) : c[e].hash = k}) =
                     IF PresentAt(revs, id, k) \/ PresentAt(revs, id, k - 1)
                     THEN 1 ELSE 0
            /\ \A e \in 1..Len(c) :
                  /\ c[e].hash \in 1..Len(revs)
                  /\ c[e].change_type =
                        IF ~PresentAt(revs, id, c[e].hash - 1) THEN "Created"
                        ELSE IF PresentAt(revs, id, c[e].hash) THEN "Modified"
                        ELSE "Deleted"
            /\ \A e \in 1..(Len(c) - 1) : c[e].hash < c[e + 1].hash
            /\ (\A k \in 1..Len(revs) : ~PresentAt(revs, id, k)) => c = <<>>

\* a timeline with a Created, a Modified and a Deleted event is returned for
\* a history in which the document of one revision does not parse
TaskHistoryEventsWitness ==
    /\ Returned("task_history")
    /\ Len(result.value) = 3
    /\ result.value[1].change_type = "Created"
    /\ result.value[2].change_type = "Modified"
    /\ result.value[3].change_type = "Deleted"
    /\ ReadAndParse(input.revs[3]).kind = "err"

\* C3: deleted_tasks returns exactly the identifiers that occur in a parseable
\* historical snapshot and not in the working document, each once, in
\* strictly ascending order.
DeletedIsHistoricalMinusCurrent ==
    Returned("deleted_tasks") =>
        LET d == result.value
        IN  /\ {d[i].id : i \in 1..Len(d)} =
                  HistoricalIds(input.revs)
                     \ TaskIds(Parse(Unlines(input.current)).tasks)
            /\ \A i \in 1..(Len(d) - 1) : d[i].id < d[i + 1].id

\* two deleted identifiers are returned while a third historical identifier
\* is still in the working document
DeletedIsHistoricalMinusCurrentWitness ==
    /\ Returned("deleted_tasks")
    /\ Len(result.value) = 2
    /\ HistoricalIds(input.revs) \cap TaskIds(Parse(Unlines(input.current)).tasks) # {}

\* the first task with the identifier, in the order deleted_tasks walks the
\* revisions and, inside a snapshot, in task-list order
FirstSeen(revs, id) ==
    LET walk == RevWalk("deleted_tasks", revs)
        k == CHOOSE k \in 1..Len(walk) :
                /\ HasTask(SnapTasks(walk[k].snap), id)
                /\ \A j \in 1..(k - 1) : ~HasTask(SnapTasks(walk[j].snap), id)
        ts == SnapTasks(walk[k].snap)
    IN  ts[CHOOSE i \in 1..Len(ts) :
                ts[i].id = id /\ \A j \in 1..(i - 1) : ts[j].id # id]

\* the number of tasks with the identifier in all parseable snapshots
Occurrences(revs, id) ==
    Cardinality({<<k, i>> \in (1..Len(revs)) \X (1..3) :
                    i <= Len(SnapTasks(revs[k])) /\ SnapTasks(revs[k])[i].id = id})

RECURSIVE WalkFrom(_, _, _, _)
WalkFrom(op, st, id, walk) ==
    IF walk = <<>> THEN st
    ELSE WalkFrom(op, WalkVisit(op, st, id, walk[1].rev, ReadAndParse(walk[1].snap)),
                  id, Tail(walk))

\* C7: max_historical_id returns the largest identifier of all parseable
\* snapshots, the same whichever way round the revisions are visited, and
\* none exactly when no parseable snapshot holds a task.
MaxHistoricalIdIsMax ==
    Returned("max_historical_id") =>
        LET ids == HistoricalIds(input.revs)
            v == result.value
            named == [i \in 1..Len(input.revs) |-> [rev |-> i, snap |-> input.revs[i]]]
        IN  /\ (v = <<>>) <=> (ids = {})
            /\ v # <<>> => (v[1] \in ids /\ \A x \in ids : x <= v[1])
            /\ v = WalkFrom("max_historical_id", WalkStart("max_historical_id"),
                            1, named).max_id

\* the maximum is returned for a history whose newest parseable snapshot
\* does not hold it and in which one snapshot is absent
MaxHistoricalIdIsMaxWitness ==
    /\ Returned("max_historical_id")
    /\ result.value = <<3>>
    /\ Len(input.revs) = 3
    /\ ~input.revs[2].found
    /\ TaskIds(SnapTasks(input.revs[3])) = {1}

\* a history in which every revision whose document is absent or does not
\* parse holds a document without tasks instead
Sanitized(revs) ==
    [k \in 1..Len(revs) |->
        IF ReadAndParse(revs[k]).kind = "ok" THEN revs[k] ELSE File(<<TasksLine>>)]

\* C8: a revision whose document is absent, unreadable or fails to parse never
\* makes a history walk fail or stop: the operation returns, and returns what
\* the same walk returns when that revision's snapshot contains no tasks.
SoftFailIsolation ==
    (/\ mode = "hist"
     /\ pc \in {"returned", "panicked"}
     /\ Parse(Unlines(input.current)).kind = "ok") =>
        /\ pc = "returned"
        /\ result.kind = "ok"
        /\ result.value =
              WalkValue(input.op,
                        WalkFrom(input.op, WalkStart(input.op), input.task_id,
                                 RevWalk(input.op, Sanitized(input.revs))),
                        work.current_tasks)

\* ------------------------------------------ resolve-conflicts (inputs)

\* the most tasks a document with conflicts has
MaxTasks == 4

\* how often the command is run on the file
MaxRuns == 2

LineB2b == <<"#", "#", "#", " ", "B", " ", "2", " ", "-", " ", "b">>
LineT5c == <<"#", "#", "#", " ", "T", " ", "5", " ", "-", " ", "c">>

\* a task without a subject
LineB1 == <<"#", "#", "#", " ", "B", " ", "1">>

\* a task with the largest identifier of the type
LineTMax == H3 \o <<"T", " ">> \o Decimal(U32Max) \o <<" ", "-", " ", "d">>

ConflictLinePool ==
    {LineT1a, LineB1, LineT2a, LineB2b, LineT5c, LineT0, LineTMax}

ConflictDocs ==
    {<<TasksLine>> \o ls : ls \in SeqsUpTo(ConflictLinePool, MaxTasks)}

\* ------------------------------------------------- resolve-conflicts

\* id_occurrences: for an identifier, the positions of its tasks in list order
Occurs(tasks, id) ==
    LET at == {i \in 1..Len(tasks) : tasks[i].id = id}
    IN  SortIds(at)

\* the identifiers that occur more than once
Duplicated(tasks) ==
    {id \in TaskIds(tasks) : Len(Occurs(tasks, id)) > 1}

\* The orders in which "duplicates" can list the groups: it is collected from
\* the iteration of a HashMap, whose order differs from run to run.
GroupOrders(tasks) ==
    {o \in SeqsUpTo(Duplicated(tasks), Cardinality(Duplicated(tasks))) :
        /\ Len(o) = Cardinality(Duplicated(tasks))
        /\ \A i, j \in 1..Len(o) : i # j => o[i] # o[j]}

\* TaskCollection::max_id of a collection with tasks
MaxId(tasks) ==
    CHOOSE m \in TaskIds(tasks) : \A x \in TaskIds(tasks) : x <= m

\* RenumberTargets without skip(1): the first occurrence is renumbered too
RECURSIVE RenumberTargetsAll(_, _)
RenumberTargetsAll(tasks, order) ==
    IF order = <<>> THEN <<>>
    ELSE Occurs(tasks, order[1]) \o RenumberTargetsAll(tasks, Tail(order))

\* the positions renumbered, in the order of the two nested loops: group by
\* group, inside a group every occurrence but the first
RECURSIVE RenumberTargets(_, _)
RenumberTargets(tasks, order) ==
    IF order = <<>> THEN <<>>
    ELSE Tail(Occurs(tasks, order[1])) \o RenumberTargets(tasks, Tail(order))

\* the renumbering loops: st = [tasks, renumbered]
RECURSIVE Renumber(_, _, _)
Renumber(st, targets, next_id) ==
    IF targets = <<>> THEN st
    ELSE LET idx == targets[1]
         IN  Renumber([tasks |-> [st.tasks EXCEPT ![idx].id = next_id],
                       renumbered |->
                          Append(st.renumbered,
                                 [idx |-> idx, old_id |-> st.tasks[idx].id,
                                  new_id |-> next_id,
                                  subject |-> st.tasks[idx].subject])],
                      Tail(targets), TaskIdNext(next_id))

\* the command on a parsed document, the groups taken in the given order
Resolved(doc, order) ==
    Renumber([tasks |-> doc.tasks, renumbered |-> <<>>],
             RenumberTargets(doc.tasks, order),
             TaskIdNext(MaxId(doc.tasks)))

\* one of the next() calls of the renumbering does not fit the type: the
\* call on max_id, or the call after one of the assignments
RenumberOverflows(doc, order) ==
    \E j \in 0..Len(RenumberTargets(doc.tasks, order)) :
        TaskIdNextOverflows(MaxId(doc.tasks) + j)

InitResolve ==
    /\ mode = "resolve"
    /\ pc = "ready"
    /\ input \in ConflictDocs
    /\ work \in [file : {Unlines(input)}, runs : {0}, build : Builds]
    /\ result = <<>>

\* what one run leaves behind, given the parsed file and the group order
ResolveRun(doc, order) ==
    IF doc.kind # "ok"
    THEN /\ result' = Append(result, [kind |-> "err"])
         /\ work' = [work EXCEPT !.runs = @ + 1]
         /\ pc' = pc
    ELSE IF Duplicated(doc.tasks) = {}
    THEN /\ result' = Append(result, [kind |-> "nothing"])
         /\ work' = [work EXCEPT !.runs = @ + 1]
         /\ pc' = pc
    ELSE IF work.build = "overflow-checks" /\ RenumberOverflows(doc, order)
    THEN /\ pc' = "panicked"
         /\ UNCHANGED <<work, result>>
    ELSE /\ pc' = pc
         /\ result' = Append(result,
                             [kind |-> "resolved", order |-> order,
                              before |-> doc.tasks,
                              tasks |-> Resolved(doc, order).tasks,
                              renumbered |-> Resolved(doc, order).renumbered])
         /\ work' = [work EXCEPT
                       !.file = Serialize([doc EXCEPT
                                   !.tasks = Resolved(doc, order).tasks]),
                       !.runs = @ + 1]

\* one run of "frump resolve-conflicts": the file is read and parsed, the
\* duplicates are found, renumbered and the document is written back
ResolveConflicts ==
    /\ mode = "resolve" /\ pc = "ready"
    /\ work.runs < MaxRuns
    /\ \E order \in GroupOrders(Parse(work.file).tasks) :
          ResolveRun(Parse(work.file), order)
    /\ UNCHANGED <<mode, input>>

NextResolve == ResolveConflicts

SpecResolve == InitResolve /\ [][NextResolve]_vars

\* ---- resolve-conflicts, stated over the document before the run

\* the positions that are not the first occurrence of their identifier
NonFirst(tasks) ==
    {i \in 1..Len(tasks) : \E j \in 1..(i - 1) : tasks[j].id = tasks[i].id}

\* C5: the first occurrence of every identifier keeps it, and the k other
\* occurrences receive exactly M + 1 .. M + k (M the largest identifier before
\* the run), each once, handed out in ascending sequence, a later position of
\* a group receiving a larger identifier than an earlier one.
RenumberFromMax ==
    \A r \in 1..Len(result) :
        (mode = "resolve" /\ result[r].kind = "resolved") =>
            LET old == result[r].before
                new == result[r].tasks
                rn == result[r].renumbered
                M == MaxId(old)
                k == Cardinality(NonFirst(old))
            IN  /\ Len(new) = Len(old)
                /\ \A i \in (1..Len(old)) \ NonFirst(old) : new[i].id = old[i].id
                /\ {new[i].id : i \in NonFirst(old)} = (M + 1)..(M + k)
                /\ \A i, j \in NonFirst(old) : i # j => new[i].id # new[j].id
                /\ \A i, j \in NonFirst(old) :
                      (old[i].id = old[j].id /\ i < j) => new[i].id < new[j].id
                /\ Len(rn) = k
                /\ \A n \in 1..k :
                      /\ rn[n].new_id = M + n
                      /\ rn[n].idx \in NonFirst(old)
                      /\ rn[n].old_id = old[rn[n].idx].id
                      /\ new[rn[n].idx].id = rn[n].new_id

\* two tasks share identifier 2 while the largest identifier is 5: the first
\* keeps 2 and the second becomes 6
RenumberFromMaxWitness ==
    /\ mode = "resolve"
    /\ Len(result) >= 1
    /\ result[1].kind = "resolved"
    /\ \E i, j \in 1..Len(result[1].before) :
          /\ i < j
          /\ result[1].before[i].id = 2 /\ result[1].before[j].id = 2
          /\ MaxId(result[1].before) = 5
          /\ result[1].tasks[i].id = 2 /\ result[1].tasks[j].id = 6

\* C6: the duplicate groups are processed in ascending order of the
\* duplicated identifier, so that every run on a document gives the same
\* old -> new assignment.
ResolveDeterministic ==
    \A r \in 1..Len(result) :
        (mode = "resolve" /\ result[r].kind = "resolved") =>
            /\ result[r].order = SortIds(Duplicated(result[r].before))
            /\ result[r].renumbered =
                  Resolved([tasks |-> result[r].before],
                           SortIds(Duplicated(result[r].before))).renumbered

\* ------------------------------------------- task headings (inputs)

\* what a heading line is put together from
HeadingIndents == {<<>>, <<" ">>}
HeadingTypes == {<<"T">>, <<"B", "u", "g">>}
HeadingGaps == {<<" ">>, <<" ", " ">>, <<"\t">>}
HeadingIds == {<<"1">>, <<"0">>, <<"1", "2">>, <<"+", "1">>, <<"x">>, <<>>}
HeadingRests ==
    { <<>>,
      <<" ", "-", " ", "a">>,                 \* " - a"
      <<" ", "a", " ", "b">>,                 \* " a b"
      <<" ", "-", " ", "-", " ", "a">>,       \* " - - a"
      <<" ", " ", "-", " ", "a", " ">>,       \* "  - a "
      <<" ", "-">> }                          \* " -"

HeadingLines ==
    {ind \o H3 \o ty \o gap \o id \o rest :
        ind \in HeadingIndents, ty \in HeadingTypes, gap \in HeadingGaps,
        id \in HeadingIds, rest \in HeadingRests}

\* ------------------------------------------- parse_task, the heading

InitHeading ==
    /\ mode = "heading"
    /\ pc = "call"
    /\ input \in HeadingLines
    /\ work = <<>>
    /\ result = <<>>

\* parse_task on a block that is only a heading line, up to Task::new
HeadingParse ==
    /\ mode = "heading" /\ pc = "call"
    /\ result' = ParseHeading(input)
    /\ pc' = "returned"
    /\ UNCHANGED <<mode, input, work>>

NextHeading == HeadingParse

SpecHeading == InitHeading /\ [][NextHeading]_vars

\* ---- the heading, split on whitespace

\* the position of the first whitespace character of s, 0 without one
FindWs(s) ==
    IF \E i \in 1..Len(s) : IsWs(s[i])
    THEN CHOOSE i \in 1..Len(s) : IsWs(s[i]) /\ \A j \in 1..(i - 1) : ~IsWs(s[j])
    ELSE 0

\* the first whitespace-separated token of s
FirstToken(s) ==
    IF FindWs(TrimStart(s)) = 0 THEN TrimStart(s)
    ELSE Take(TrimStart(s), FindWs(TrimStart(s)) - 1)

\* s after its first whitespace-separated token
AfterToken(s) ==
    IF FindWs(TrimStart(s)) = 0 THEN <<>>
    ELSE TrimStart(Drop(TrimStart(s), FindWs(TrimStart(s))))

\* at most three tokens [type, id, rest] of a heading split on whitespace
WsTokens(s) ==
    IF FirstToken(s) = <<>> THEN <<>>
    ELSE IF FirstToken(AfterToken(s)) = <<>> THEN <<FirstToken(s)>>
    ELSE IF AfterToken(AfterToken(s)) = <<>>
    THEN <<FirstToken(s), FirstToken(AfterToken(s))>>
    ELSE <<FirstToken(s), FirstToken(AfterToken(s)), AfterToken(AfterToken(s))>>

\* the heading line with its leading "### " stripped once, indentation aside
HeadingText(line) ==
    IF StartsWith(TrimStart(line), H3) THEN Drop(TrimStart(line), Len(H3))
    ELSE TrimStart(line)

\* a subject token with one leading "- " stripped, trimmed
SubjectOf(rest) ==
    IF StartsWith(rest, DashSp) THEN Trim(Drop(rest, Len(DashSp))) ELSE Trim(rest)

\* C11: the heading, after "### ", is split on whitespace into at most three
\* tokens; parsing fails iff there are fewer than two tokens or the id token
\* is not an unsigned integer or is zero, and otherwise gives the type of the
\* first token, the id of the second and the subject of the third (one
\* leading "- " stripped, trimmed; empty without a third token).
HeadingByWhitespace ==
    (mode = "heading" /\ pc = "returned") =>
        LET parts == WsTokens(HeadingText(input))
            fails == \/ Len(parts) < 2
                     \/ ParseU32(parts[2]) = -1
                     \/ ParseU32(parts[2]) = 0
        IN  /\ result.ok = ~fails
            /\ ~fails =>
                  /\ result.task.task_type = TaskTypeParse(parts[1])
                  /\ result.task.id = ParseU32(parts[2])
                  /\ result.task.subject =
                        (IF Len(parts) > 2 THEN SubjectOf(parts[3]) ELSE <<>>)

\* ---- the tasks region, stated over the lines of the text

\* the first "## Tasks" line of the text, 0 without one
TasksHeaderAt(lines) ==
    IF \E i \in 1..Len(lines) : IsTasksHeader(lines[i])
    THEN CHOOSE i \in 1..Len(lines) :
            IsTasksHeader(lines[i]) /\ \A j \in 1..(i - 1) : ~IsTasksHeader(lines[j])
    ELSE 0

\* the "### " lines after line h, in document order
HeadingsAfter(lines, h) ==
    SortIds({j \in (h + 1)..Len(lines) : StartsWith(Trim(lines[j]), H3)})

\* C12: when the text has a "## Tasks" header line and parse succeeds, every
\* "### " block after that header yields exactly one task, in document order,
\* wherever the header stands and whatever "## " line ended the team region.
TasksRegionRecognised ==
    (/\ mode = "doc" /\ pc = "parsed"
     /\ result.first.kind = "ok"
     /\ TasksHeaderAt(input) # 0) =>
        LET heads == HeadingsAfter(input, TasksHeaderAt(input))
        IN  /\ Len(result.first.tasks) = Len(heads)
            /\ \A n \in 1..Len(heads) :
                  /\ n <= Len(result.first.tasks)
                  /\ result.first.tasks[n].id = ParseHeading(input[heads[n]]).task.id
                  /\ result.first.tasks[n].subject =
                        ParseHeading(input[heads[n]]).task.subject

\* ------------------------------------------------------ TaskId values

\* how many times next() is applied in a row
MaxNexts == 2

InitId ==
    /\ mode = "id"
    /\ pc = "call"
    /\ input \in [n : 0..U32Max, build : Builds]
    /\ work = <<>>
    /\ result = <<>>

\* TaskId::new(n)
IdNew ==
    /\ mode = "id" /\ pc = "call"
    /\ IF TaskIdNewOk(input.n)
       THEN /\ pc' = "id"
            /\ result' = [value |-> input.n, prev |-> input.n, nexts |-> 0]
       ELSE /\ pc' = "failed"
            /\ result' = result
    /\ UNCHANGED <<mode, input, work>>

\* TaskId::next on the identifier at hand
IdNext ==
    /\ mode = "id" /\ pc = "id"
    /\ result.nexts < MaxNexts
    /\ IF TaskIdNextOverflows(result.value) /\ input.build = "overflow-checks"
       THEN /\ pc' = "panicked"
            /\ result' = result
       ELSE /\ pc' = pc
            /\ result' = [value |-> TaskIdNext(result.value),
                          prev |-> result.value, nexts |-> result.nexts + 1]
    /\ UNCHANGED <<mode, input, work>>

NextId == IdNew \/ IdNext

SpecId == InitId /\ [][NextId]_vars

\* C13: new(0) fails and new(n) succeeds for every other n of the type; next()
\* of an identifier n is n + 1; and every identifier obtained by new and any
\* number of next() calls is at least 1, the largest value of the type
\* included.
IdentifierInvariant ==
    (mode = "id") =>
        /\ pc = "failed" <=> (pc # "call" /\ input.n = 0)
        /\ pc # "panicked"
        /\ pc = "id" =>
              /\ result.value >= 1
              /\ result.nexts > 0 => result.value = result.prev + 1

\* ------------------------------------------------- PropertyKey values

\* the most characters a key text has
MaxKeyLen == 7

KeyChars == {"A", "a", " ", "\t"}

KeyTexts == SeqsUpTo(KeyChars, MaxKeyLen)

\* the predefined keys
PredefinedKeys ==
    [status |-> <<"S", "t", "a", "t", "u", "s">>,
     assigned_to |-> <<"A", "s", "s", "i", "g", "n", "e", "d", " ", "T", "o">>,
     tags |-> <<"T", "a", "g", "s">>,
     priority |-> <<"P", "r", "i", "o", "r", "i", "t", "y">>,
     due_date |-> <<"D", "u", "e", " ", "D", "a", "t", "e">>]

KeyCalls ==
    {[op |-> op, arg |-> k] : op \in {"new", "try_parse"}, k \in KeyTexts}
    \cup {[op |-> op, arg |-> <<>>] : op \in DOMAIN PredefinedKeys}

InitKey ==
    /\ mode = "key"
    /\ pc = "call"
    /\ input \in KeyCalls
    /\ work = <<>>
    /\ result = <<>>

\* PropertyKey::new(key): Ok(PropertyKey(key)) or Err
KeyNew ==
    /\ mode = "key" /\ pc = "call" /\ input.op = "new"
    /\ result' = IF PropertyKeyNewOk(input.arg)
                 THEN [some |-> TRUE, key |-> input.arg]
                 ELSE [some |-> FALSE, key |-> <<>>]
    /\ pc' = "returned"
    /\ UNCHANGED <<mode, input, work>>

\* PropertyKey::try_parse(key): Self::new(key).ok()
KeyTryParse ==
    /\ mode = "key" /\ pc = "call" /\ input.op = "try_parse"
    /\ result' = IF PropertyKeyNewOk(input.arg)
                 THEN [some |-> TRUE, key |-> input.arg]
                 ELSE [some |-> FALSE, key |-> <<>>]
    /\ pc' = "returned"
    /\ UNCHANGED <<mode, input, work>>

\* PropertyKey::status() and the other predefined keys: built without new
KeyPredefined ==
    /\ mode = "key" /\ pc = "call" /\ input.op \in DOMAIN PredefinedKeys
    /\ result' = [some |-> TRUE, key |-> PredefinedKeys[input.op]]
    /\ pc' = "returned"
    /\ UNCHANGED <<mode, input, work>>

NextKey == KeyNew \/ KeyTryParse \/ KeyPredefined

SpecKey == InitKey /\ [][NextKey]_vars

\* ---- the key rule, stated over the text

\* the number of maximal runs of non-whitespace characters of s
WordsIn(s) ==
    Cardinality({i \in 1..Len(s) : ~IsWs(s[i]) /\ (i = 1 \/ IsWs(s[i - 1]))})

KeyRule(s) == s # <<>> /\ IsUpper(s[1]) /\ WordsIn(s) \in 1..3

\* C14: new(s) succeeds iff the first character of s is uppercase and s has
\* one to three whitespace-separated words; try_parse(s) is some exactly when
\* new(s) succeeds; and every key obtained from new, try_parse or a
\* predefined key satisfies the rule.
PropertyKeyRule ==
    (mode = "key" /\ pc = "returned") =>
        /\ input.op \in {"new", "try_parse"} =>
              /\ result.some <=> KeyRule(input.arg)
              /\ result.some => result.key = input.arg
        /\ result.some => KeyRule(result.key)

\* a key of three words is accepted, tabs and double spaces between them
PropertyKeyRuleWitness ==
    /\ mode = "key" /\ pc = "returned"
    /\ input.op = "new"
    /\ result.some
    /\ WordsIn(result.key) = 3
    /\ \E i \in 1..Len(result.key) : result.key[i] = "\t"

\* ------------------------------------------------------- Email values

\* the most characters an email text has
MaxEmailLen == 5

EmailChars == {"a", "@", " "}

EmailTexts == SeqsUpTo(EmailChars, MaxEmailLen)

InitEmail ==
    /\ mode = "email"
    /\ pc = "call"
    /\ input \in EmailTexts
    /\ work = <<>>
    /\ result = <<>>

\* Email::new(email): Ok(Email(trimmed)) or Err
EmailCall ==
    /\ mode = "email" /\ pc = "call"
    /\ result' = EmailNew(input)
    /\ pc' = "returned"
    /\ UNCHANGED <<mode, input, work>>

NextEmail == EmailCall

SpecEmail == InitEmail /\ [][NextEmail]_vars

\* ---- the email rule, stated over the text

\* the positions of s that hold "@"
AtSigns(s) == {i \in 1..Len(s) : s[i] = "@"}

\* s without its surrounding whitespace: from its first to its last
\* non-whitespace character
Stripped(s) ==
    LET solid == {i \in 1..Len(s) : ~IsWs(s[i])}
    IN  IF solid = {} THEN <<>>
        ELSE SubSeq(s, CHOOSE i \in solid : \A j \in solid : i <= j,
                       CHOOSE i \in solid : \A j \in solid : j <= i)

\* C15: new(s) succeeds iff s without its surrounding whitespace holds
\* exactly one "@" with a non-empty part on each side, and the value stored
\* is that trimmed text.
EmailRule ==
    (mode = "email" /\ pc = "returned") =>
        /\ result.ok <=>
              /\ Cardinality(AtSigns(Stripped(input))) = 1
              /\ 1 \notin AtSigns(Stripped(input))
              /\ Len(Stripped(input)) \notin AtSigns(Stripped(input))
        /\ result.ok => result.value = Stripped(input)

\* a text with whitespace around a valid address is accepted and stored trimmed
EmailRuleWitness ==
    /\ mode = "email" /\ pc = "returned"
    /\ result.ok
    /\ IsWs(input[1]) /\ IsWs(input[Len(input)])
    /\ result.value # input

\* ------------------------------------------------- Task properties

\* the most properties a task is given
MaxProps == 3

PropKeys == {PredefinedKeys.status, PredefinedKeys.assigned_to, PredefinedKeys.tags}

PropValues == {<<"a">>, <<"b">>}

\* the position of the first property with the key, 0 without one
FindKey(props, key) ==
    IF \E i \in 1..Len(props) : props[i].key = key
    THEN CHOOSE i \in 1..Len(props) :
            props[i].key = key /\ \A j \in 1..(i - 1) : props[j].key # key
    ELSE 0

\* the position of the last property with the key, 0 without one
FindKeyLast(props, key) ==
    IF \E i \in 1..Len(props) : props[i].key = key
    THEN CHOOSE i \in 1..Len(props) :
            props[i].key = key /\ \A j \in (i + 1)..Len(props) : props[j].key # key
    ELSE 0

\* Task::get_property: <<value>> of the first property with the key, or <<>>
GetProperty(props, key) ==
    IF FindKey(props, key) = 0 THEN <<>> ELSE <<props[FindKey(props, key)].value>>

\* Task::add_property
AddProperty(props, key, value) == Append(props, [key |-> key, value |-> value])

\* SetProperty updating the last property with the key
SetPropertyLast(props, key, value) ==
    IF FindKey(props, key) # 0
    THEN [props EXCEPT ![FindKeyLast(props, key)].value = value]
    ELSE AddProperty(props, key, value)

\* SetProperty without the search for the key
SetPropertyAppend(props, key, value) == AddProperty(props, key, value)

\* Task::set_property
SetProperty(props, key, value) ==
    IF FindKey(props, key) # 0
    THEN [props EXCEPT ![FindKey(props, key)].value = value]
    ELSE AddProperty(props, key, value)

\* RemoveProperty removing the first property with the key only
RemovePropertyFirst(props, key) ==
    IF FindKey(props, key) = 0 THEN props
    ELSE Take(props, FindKey(props, key) - 1) \o Drop(props, FindKey(props, key))

\* Task::remove_property: retain(|p| &p.key != key)
RECURSIVE RemoveProperty(_, _)
RemoveProperty(props, key) ==
    IF props = <<>> THEN <<>>
    ELSE IF props[1].key # key
    THEN <<props[1]>> \o RemoveProperty(Tail(props), key)
    ELSE RemoveProperty(Tail(props), key)

\* what a call leaves in the record of the last call
Called(op, key, value, raw) ==
    [op |-> op, key |-> key, value |-> value,
     before |-> result.properties, raw |-> raw]

InitTask ==
    /\ mode = "task"
    /\ pc = "ready"
    /\ input = <<>>
    /\ work = [op |-> "new", key |-> <<>>, value |-> <<>>,
               before |-> <<>>, raw |-> FALSE]
    /\ result = TaskNew(1, <<"T">>, <<>>)

\* task.add_property(key, value)
TaskAddProperty ==
    /\ mode = "task"
    /\ Len(result.properties) < MaxProps
    /\ \E key \in PropKeys, value \in PropValues :
          /\ result' = [result EXCEPT !.properties = AddProperty(@, key, value)]
          /\ work' = Called("add_property", key, value, TRUE)
    /\ UNCHANGED <<mode, pc, input>>

\* task.set_property(key, value)
TaskSetProperty ==
    /\ mode = "task"
    /\ \E key \in PropKeys, value \in PropValues :
          /\ Len(SetProperty(result.properties, key, value)) <= MaxProps
          /\ result' = [result EXCEPT !.properties = SetProperty(@, key, value)]
          /\ work' = Called("set_property", key, value, work.raw)
    /\ UNCHANGED <<mode, pc, input>>

\* task.remove_property(&key)
TaskRemoveProperty ==
    /\ mode = "task"
    /\ \E key \in PropKeys :
          /\ result' = [result EXCEPT !.properties = RemoveProperty(@, key)]
          /\ work' = Called("remove_property", key, <<>>, work.raw)
    /\ UNCHANGED <<mode, pc, input>>

\* task.set_status(status)
TaskSetStatus ==
    /\ mode = "task"
    /\ \E value \in PropValues :
          /\ Len(SetProperty(result.properties, PredefinedKeys.status, value)) <= MaxProps
          /\ result' = [result EXCEPT !.properties =
                            SetProperty(@, PredefinedKeys.status, value)]
          /\ work' = Called("set_status", PredefinedKeys.status, value, work.raw)
    /\ UNCHANGED <<mode, pc, input>>

\* task.set_assignee(assignee)
TaskSetAssignee ==
    /\ mode = "task"
    /\ \E value \in PropValues :
          /\ Len(SetProperty(result.properties, PredefinedKeys.assigned_to, value)) <= MaxProps
          /\ result' = [result EXCEPT !.properties =
                            SetProperty(@, PredefinedKeys.assigned_to, value)]
          /\ work' = Called("set_assignee", PredefinedKeys.assigned_to, value, work.raw)
    /\ UNCHANGED <<mode, pc, input>>

NextTask ==
    \/ TaskAddProperty
    \/ TaskSetProperty
    \/ TaskRemoveProperty
    \/ TaskSetStatus
    \/ TaskSetAssignee

SpecTask == InitTask /\ [][NextTask]_vars

\* ---- the property list before and after a call

\* the positions of props that hold the key
KeyAt(props, key) == {i \in 1..Len(props) : props[i].key = key}

NoDuplicateKeys(props) ==
    \A i, j \in 1..Len(props) : props[i].key = props[j].key => i = j

\* C16: after set_property(k, v) get_property(k) is v; if k was present only
\* the value of the first entry with key k has changed, and if k was absent
\* exactly the entry (k, v) was appended.
SetThenGet ==
    (mode = "task" /\ work.op = "set_property") =>
        LET b == work.before
            a == result.properties
            at == KeyAt(b, work.key)
        IN  /\ GetProperty(a, work.key) = <<work.value>>
            /\ at # {} =>
                  /\ Len(a) = Len(b)
                  /\ \A i \in 1..Len(b) :
                        IF i \in at /\ \A j \in at : i <= j
                        THEN a[i] = [key |-> work.key, value |-> work.value]
                        ELSE a[i] = b[i]
            /\ at = {} =>
                  a = b \o <<[key |-> work.key, value |-> work.value]>>

\* set_property on a key that the list holds twice, with a new value
SetThenGetWitness ==
    /\ mode = "task" /\ work.op = "set_property"
    /\ Cardinality(KeyAt(work.before, work.key)) = 2
    /\ GetProperty(work.before, work.key) # <<work.value>>
    /\ 1 \notin KeyAt(work.before, work.key)

\* C17: remove_property(k) deletes every property with key k, and the
\* properties with other keys remain with their values in their order.
RemoveDeletesAll ==
    (mode = "task" /\ work.op = "remove_property") =>
        LET b == work.before
            a == result.properties
            kept == SortIds((1..Len(b)) \ KeyAt(b, work.key))
        IN  /\ GetProperty(a, work.key) = <<>>
            /\ KeyAt(a, work.key) = {}
            /\ Len(a) = Len(kept)
            /\ \A n \in 1..Len(kept) : a[n] = b[kept[n]]

\* remove_property on a key that the list holds twice, around another key
RemoveDeletesAllWitness ==
    /\ mode = "task" /\ work.op = "remove_property"
    /\ Len(work.before) = 3
    /\ KeyAt(work.before, work.key) = {1, 3}
    /\ Len(result.properties) = 1

\* C18: as long as add_property was not called, the list holds no key twice;
\* and a call after which a key is held twice where none was is add_property.
OneEntryPerKey ==
    (mode = "task") =>
        /\ ~work.raw => NoDuplicateKeys(result.properties)
        /\ (NoDuplicateKeys(work.before) /\ ~NoDuplicateKeys(result.properties))
              => work.op = "add_property"

\* without add_property: two keys were set, and one of them is set again
OneEntryPerKeyWitness ==
    /\ mode = "task" /\ ~work.raw
    /\ work.op \in {"set_property", "set_status", "set_assignee"}
    /\ Len(work.before) = 2
    /\ KeyAt(work.before, work.key) # {}
    /\ GetProperty(work.before, work.key) # <<work.value>>

\* ------------------------------------------------- TaskCollection

\* the most tasks the collection is given
MaxCollection == 3

\* the identifiers of the tasks that are added
CollectionIds == {1, 2, U32Max}

\* TaskCollection::remove: the first task with the identifier is taken out
RemoveTask(tasks, id) ==
    IF HasTask(tasks, id)
    THEN LET pos == CHOOSE i \in 1..Len(tasks) :
                       tasks[i].id = id /\ \A j \in 1..(i - 1) : tasks[j].id # id
         IN  Take(tasks, pos - 1) \o Drop(tasks, pos)
    ELSE tasks

NoId == [kind |-> "none", value |-> 0]

InitCollection ==
    /\ mode = "collection"
    /\ pc = "ready"
    /\ input \in [build : Builds]
    /\ work = <<>>
    /\ result = NoId

\* tasks.add(task)
CollectionAdd ==
    /\ mode = "collection" /\ pc = "ready"
    /\ Len(work) < MaxCollection
    /\ \E id \in CollectionIds : work' = Append(work, TaskNew(id, <<"T">>, <<>>))
    /\ result' = NoId
    /\ UNCHANGED <<mode, pc, input>>

\* tasks.remove(id)
CollectionRemove ==
    /\ mode = "collection" /\ pc = "ready"
    /\ \E id \in CollectionIds : work' = RemoveTask(work, id)
    /\ result' = NoId
    /\ UNCHANGED <<mode, pc, input>>

\* tasks.next_id(): 1 for the empty collection, max_id().next() otherwise
CollectionNextId ==
    /\ mode = "collection" /\ pc = "ready"
    /\ IF work = <<>>
       THEN /\ result' = [kind |-> "id", value |-> 1]
            /\ pc' = pc
       ELSE IF TaskIdNextOverflows(MaxId(work)) /\ input.build = "overflow-checks"
       THEN /\ result' = result
            /\ pc' = "panicked"
       ELSE /\ result' = [kind |-> "id", value |-> TaskIdNext(MaxId(work))]
            /\ pc' = pc
    /\ UNCHANGED <<mode, input, work>>

NextCollection == CollectionAdd \/ CollectionRemove \/ CollectionNextId

SpecCollection == InitCollection /\ [][NextCollection]_vars

\* C19: next_id returns 1 for the empty collection and the largest identifier
\* present plus 1 otherwise, an identifier greater than that of every task of
\* the collection.
NextIdIsFresh ==
    (mode = "collection") =>
        /\ pc # "panicked"
        /\ result.kind = "id" =>
              /\ work = <<>> => result.value = 1
              /\ work # <<>> => result.value = MaxId(work) + 1
              /\ \A i \in 1..Len(work) : result.value > work[i].id

\* ------------------------------------------- apply_default_assignees

\* the most tasks and the most members of the document
MaxAssignTasks == 2
MaxTeam == 2

\* how often apply_default_assignees is called on the document
MaxApplications == 2

MemberPool ==
    {[name |-> n, email |-> <<"a", "@", "b">>, role |-> <<>>] :
        n \in {<<"a">>, <<"b">>}}

AssignPropPool ==
    { [key |-> PredefinedKeys.status, value |-> <<"a">>],
      [key |-> PredefinedKeys.assigned_to, value |-> <<"a">>],
      [key |-> PredefinedKeys.assigned_to, value |-> <<"c">>] }

AssignTaskPool ==
    {[TaskNew(1, <<"T">>, <<>>) EXCEPT !.properties = ps] :
        ps \in SeqsUpTo(AssignPropPool, 2)}

AssignDocs ==
    [header : {<<>>},
     team : SeqsUpTo(MemberPool, MaxTeam),
     tasks : SeqsUpTo(AssignTaskPool, MaxAssignTasks)]

\* Task::assignee
Assignee(task) == GetProperty(task.properties, PredefinedKeys.assigned_to)

\* Team::default_assignee: the first member, <<>> for an empty team
DefaultAssignee(team) == IF team = <<>> THEN <<>> ELSE <<team[1]>>

\* AssignTo without the test for an assignee
AssignToAlways(task, name) ==
    [task EXCEPT !.properties = AddProperty(@, PredefinedKeys.assigned_to, name)]

\* the loop body of apply_default_assignees
AssignTo(task, name) ==
    IF Assignee(task) = <<>>
    THEN [task EXCEPT !.properties = AddProperty(@, PredefinedKeys.assigned_to, name)]
    ELSE task

\* FrumpDoc::apply_default_assignees on a document
WithDefaultAssignees(doc) ==
    IF DefaultAssignee(doc.team) = <<>> THEN doc
    ELSE [doc EXCEPT !.tasks =
             [i \in 1..Len(@) |-> AssignTo(@[i], DefaultAssignee(doc.team)[1].name)]]

InitAssign ==
    /\ mode = "assign"
    /\ pc = "ready"
    /\ input \in AssignDocs
    /\ work = input
    /\ result = <<>>

\* doc.apply_default_assignees()
ApplyDefaultAssignees ==
    /\ mode = "assign" /\ pc = "ready"
    /\ Len(result) < MaxApplications
    /\ work' = WithDefaultAssignees(work)
    /\ result' = Append(result, [before |-> work, after |-> WithDefaultAssignees(work)])
    /\ UNCHANGED <<mode, pc, input>>

NextAssign == ApplyDefaultAssignees

SpecAssign == InitAssign /\ [][NextAssign]_vars

\* ---- the document before and after apply_default_assignees

HasAssignee(task) == KeyAt(task.properties, PredefinedKeys.assigned_to) # {}

\* C20: with a non-empty team every task has an "Assigned To" property
\* afterwards: a task that lacked one got exactly one new entry, the name of
\* the first member, at the end of its list, and a task that had one is
\* unchanged; with an empty team the document is unchanged; and a second
\* application changes nothing.
DefaultAssigneesApplied ==
    \A r \in 1..Len(result) :
        (mode = "assign") =>
            LET b == result[r].before
                a == result[r].after
            IN  /\ a.team = b.team /\ a.header = b.header
                /\ Len(a.tasks) = Len(b.tasks)
                /\ b.team = <<>> => a = b
                /\ b.team # <<>> =>
                      \A i \in 1..Len(b.tasks) :
                          /\ HasAssignee(a.tasks[i])
                          /\ HasAssignee(b.tasks[i]) => a.tasks[i] = b.tasks[i]
                          /\ ~HasAssignee(b.tasks[i]) =>
                                a.tasks[i] =
                                   [b.tasks[i] EXCEPT !.properties =
                                       @ \o <<[key |-> PredefinedKeys.assigned_to,
                                               value |-> b.team[1].name]>>]
                /\ r > 1 => (b = result[r - 1].after /\ a = b)

\* two members, a task without assignee and a task assigned to somebody
\* else; applied twice
DefaultAssigneesAppliedWitness ==
    /\ mode = "assign"
    /\ Len(result) = 2
    /\ Len(input.team) = 2 /\ input.team[1].name # input.team[2].name
    /\ Len(input.tasks) = 2
    /\ ~HasAssignee(input.tasks[1])
    /\ input.tasks[1].properties # <<>>
    /\ Assignee(input.tasks[2]) = <<<<"c">>>>
    /\ Assignee(result[1].after.tasks[1]) = <<input.team[1].name>>

\* --------------------------------------------------- check-conflicts

\* ConflictGroup without the first occurrence
ConflictGroupRest(tasks, id) ==
    [id |-> id,
     tasks |-> [n \in 1..(Len(Occurs(tasks, id)) - 1) |->
                   tasks[Occurs(tasks, id)[n + 1]]]]

\* an entry of id_occurrences: the tasks with the identifier, in list order
ConflictGroup(tasks, id) ==
    [id |-> id,
     tasks |-> [n \in 1..Len(Occurs(tasks, id)) |-> tasks[Occurs(tasks, id)[n]]]]

InitCheck ==
    /\ mode = "check"
    /\ pc = "ready"
    /\ input \in ConflictDocs
    /\ work = <<>>
    /\ result = <<>>

\* what the command prints, given the parsed file and the order of the groups
CheckRun(doc, order) ==
    IF doc.kind # "ok"
    THEN result' = [kind |-> "err", groups |-> <<>>]
    ELSE result' = [kind |-> "ok",
                    groups |-> [g \in 1..Len(order) |->
                                   ConflictGroup(doc.tasks, order[g])]]

\* "frump check-conflicts": the file is read and parsed and the groups of
\* tasks that share an identifier are printed
CheckConflicts ==
    /\ mode = "check" /\ pc = "ready"
    /\ \E order \in GroupOrders(Parse(Unlines(input)).tasks) :
          CheckRun(Parse(Unlines(input)), order)
    /\ pc' = "reported"
    /\ UNCHANGED <<mode, input, work>>

NextCheck == CheckConflicts

SpecCheck == InitCheck /\ [][NextCheck]_vars

\* ---- the report, stated over the task list

\* the positions of the tasks with the identifier
IdAt(tasks, id) == {i \in 1..Len(tasks) : tasks[i].id = id}

\* C21: the report has exactly one group for every identifier that occurs
\* more than once, a group lists all tasks with its identifier in list order
\* and no other task, and a document without duplicates has no group.
ConflictsReported ==
    (mode = "check" /\ pc = "reported" /\ result.kind = "ok") =>
        LET tasks == Parse(Unlines(input)).tasks
            groups == result.groups
        IN  /\ {groups[g].id : g \in 1..Len(groups)} =
                  {tasks[i].id : i \in {j \in 1..Len(tasks) :
                                           Cardinality(IdAt(tasks, tasks[j].id)) > 1}}
            /\ \A g, h \in 1..Len(groups) : groups[g].id = groups[h].id => g = h
            /\ \A g \in 1..Len(groups) :
                  LET at == SortIds(IdAt(tasks, groups[g].id))
                  IN  /\ Len(groups[g].tasks) = Len(at)
                      /\ \A n \in 1..Len(at) : groups[g].tasks[n] = tasks[at[n]]

\* two identifiers are shared by two tasks each
ConflictsReportedWitness ==
    /\ mode = "check" /\ pc = "reported" /\ result.kind = "ok"
    /\ Len(result.groups) = 2
    /\ \A g \in 1..2 :
          /\ Len(result.groups[g].tasks) = 2
          /\ result.groups[g].tasks[1].subject # result.groups[g].tasks[2].subject

\* --------------------------------------- resolve-conflicts --commit

\* how a "git add" or "git commit" child process can end: exit status 0,
\* another exit status, or the process could not be run at all
GitOutcomes == {"success", "failure", "not run"}

NoBlob == <<"none">>

\* NextAfterStage going on to the commit whatever the exit status was
NextAfterStageAlways(outcome) ==
    IF outcome = "not run" THEN "failed" ELSE "commit"

\* where the command goes after "git add": on to the commit, or it returns
NextAfterStage(outcome) ==
    IF outcome = "success" THEN "commit"
    ELSE IF outcome = "failure" THEN "done"
    ELSE "failed"

InitCommit ==
    /\ mode = "commit"
    /\ pc = "ready"
    /\ input \in [lines : ConflictDocs, commit : BOOLEAN, build : Builds]
    /\ work = [file |-> Unlines(input.lines), index |-> NoBlob, head |-> NoBlob,
               written |-> NoBlob]
    /\ result = <<>>

\* up to the report of the renumbering, given the parsed file and the order
\* of the groups
CommitWriteRun(doc, order) ==
    IF doc.kind # "ok"
    THEN /\ pc' = "failed"
         /\ UNCHANGED <<work, result>>
    ELSE IF Duplicated(doc.tasks) = {}
    THEN /\ pc' = "done"
         /\ result' = Append(result, "nothing to resolve")
         /\ work' = work
    ELSE IF input.build = "overflow-checks" /\ RenumberOverflows(doc, order)
    THEN /\ pc' = "panicked"
         /\ UNCHANGED <<work, result>>
    ELSE /\ pc' = IF input.commit THEN "stage" ELSE "done"
         /\ work' = [work EXCEPT
                       !.file = Serialize([doc EXCEPT
                                   !.tasks = Resolved(doc, order).tasks]),
                       !.written = Serialize([doc EXCEPT
                                   !.tasks = Resolved(doc, order).tasks])]
         /\ result' = IF input.commit THEN Append(result, "resolved")
                      ELSE result \o <<"resolved", "remember to commit">>

\* the command up to fs::write and the report
CommitWrite ==
    /\ mode = "commit" /\ pc = "ready"
    /\ \E order \in GroupOrders(Parse(work.file).tasks) :
          CommitWriteRun(Parse(work.file), order)
    /\ UNCHANGED <<mode, input>>

\* git add <file>
CommitStage ==
    /\ mode = "commit" /\ pc = "stage"
    /\ \E outcome \in GitOutcomes :
          /\ pc' = NextAfterStage(outcome)
          /\ work' = IF outcome = "success"
                     THEN [work EXCEPT !.index = work.file] ELSE work
          /\ result' = IF outcome = "success" THEN Append(result, "staged")
                       ELSE IF outcome = "failure"
                       THEN Append(result, "failed to stage")
                       ELSE Append(result, "git add not run")
    /\ UNCHANGED <<mode, input>>

\* git commit -m <message>
CommitCreate ==
    /\ mode = "commit" /\ pc = "commit"
    /\ \E outcome \in GitOutcomes :
          /\ pc' = IF outcome = "not run" THEN "failed" ELSE "done"
          /\ work' = IF outcome = "success"
                     THEN [work EXCEPT !.head = work.index] ELSE work
          /\ result' = IF outcome = "success" THEN Append(result, "committed")
                       ELSE IF outcome = "failure"
                       THEN Append(result, "saved but commit failed")
                       ELSE Append(result, "git commit not run")
    /\ UNCHANGED <<mode, input>>

NextCommit == CommitWrite \/ CommitStage \/ CommitCreate

SpecCommit == InitCommit /\ [][NextCommit]_vars

\* ---- the order of the writes

Said(msg) == \E n \in 1..Len(result) : result[n] = msg

\* position of a message in what was said, 0 if it was not
SaidAt(msg) ==
    IF Said(msg) THEN CHOOSE n \in 1..Len(result) : result[n] = msg ELSE 0

\* "git commit" was run (whatever its exit status)
CommitAttempted == Said("committed") \/ Said("saved but commit failed")

\* C22: the renumbered document is written first, then staged, then
\* committed; a commit is attempted only after staging succeeded and never
\* after it failed; a failed commit is reported as saved but not committed;
\* and in both failure cases the renumbered document stays on disk.
WriteStageCommit ==
    (mode = "commit") =>
        /\ work.index # NoBlob =>
              (work.written # NoBlob /\ work.index = work.written)
        /\ work.head # NoBlob =>
              (work.index # NoBlob /\ work.head = work.index)
        /\ Said("staged") => (Said("resolved") /\ SaidAt("resolved") < SaidAt("staged"))
        /\ CommitAttempted => (Said("staged") /\ SaidAt("staged") < Len(result))
        /\ pc = "commit" => Said("staged")
        /\ Said("failed to stage") =>
              (pc = "done" /\ ~CommitAttempted /\ work.head = NoBlob)
        /\ (Said("staged") /\ pc = "done" /\ work.head = NoBlob) =>
              Said("saved but commit failed")
        /\ (Said("failed to stage") \/ Said("saved but commit failed")) =>
              (/\ work.file = work.written
               /\ work.file # Unlines(input.lines)
               /\ Duplicated(Parse(work.file).tasks) = {})

\* staging succeeded and the commit failed: the renumbered document is on
\* disk and in the index, and no revision was created
WriteStageCommitWitness ==
    /\ mode = "commit" /\ pc = "done"
    /\ Said("saved but commit failed")
    /\ work.file = work.index /\ work.head = NoBlob
    /\ work.file # Unlines(input.lines)

\* ---- the document resolve-conflicts leaves on disk

\* C27: after resolve-conflicts on a document with duplicate identifiers the
\* document on disk has pairwise distinct identifiers and the same tasks in
\* the same order, each with its type, subject, body and properties, only
\* non-first occurrences of a duplicated identifier have another identifier,
\* and a second run finds nothing to resolve.
ResolvedDocumentKept ==
    (mode = "resolve") =>
        /\ pc # "panicked"
        /\ (Len(result) = 1 /\ result[1].kind = "resolved") =>
              LET old == result[1].before
                  new == Parse(work.file)
              IN  /\ new.kind = "ok"
                  /\ Len(new.tasks) = Len(old)
                  /\ \A i, j \in 1..Len(new.tasks) :
                        new.tasks[i].id = new.tasks[j].id => i = j
                  /\ \A i \in 1..Len(old) :
                        /\ new.tasks[i].task_type = old[i].task_type
                        /\ new.tasks[i].subject = old[i].subject
                        /\ new.tasks[i].body = old[i].body
                        /\ new.tasks[i].properties = old[i].properties
                        /\ new.tasks[i].id # old[i].id => i \in NonFirst(old)
        /\ (Len(result) = 2 /\ result[1].kind = "resolved") =>
              result[2].kind = "nothing"

\* ---- parse and the history walks, once more

\* C24: parse is total: it returns a Document or an error for every text, so
\* no snapshot of a history makes parse abort, and every history walk that
\* was started runs to completion.
ParseIsTotal ==
    (mode = "hist" /\ pc \in {"walk", "panicked"}) =>
        /\ pc # "panicked"
        /\ work.i <= Len(input.revs) =>
              ReadAndParse(WalkAt.snap).kind \in {"absent", "err", "ok"}

\* C28: every timeline task_history returns is well formed: its first event
\* is Created; Created and Modified are followed only by Modified or Deleted;
\* Deleted is followed only by Created; there is at most one event for a
\* revision and the events are in revision order, oldest first.
TimelineWellFormed ==
    Returned("task_history") =>
        LET c == result.value
        IN  /\ c # <<>> => c[1].change_type = "Created"
            /\ \A e \in 1..(Len(c) - 1) :
                  /\ c[e].change_type \in {"Created", "Modified"}
                        => c[e + 1].change_type \in {"Modified", "Deleted"}
                  /\ c[e].change_type = "Deleted"
                        => c[e + 1].change_type = "Created"
                  /\ c[e].hash < c[e + 1].hash
            /\ \A e \in 1..Len(c) : c[e].hash \in 1..Len(input.revs)

\* a timeline is returned in which the task is deleted and created again
TimelineWellFormedWitness ==
    /\ Returned("task_history")
    /\ Len(result.value) = 3
    /\ result.value[1].change_type = "Created"
    /\ result.value[2].change_type = "Deleted"
    /\ result.value[3].change_type = "Created"

\* the first task with the identifier in the chronologically earliest
\* parseable snapshot that holds the identifier
EarliestSeen(revs, id) ==
    LET k == CHOOSE k \in 1..Len(revs) :
                /\ HasTask(SnapTasks(revs[k]), id)
                /\ \A j \in 1..(k - 1) : ~HasTask(SnapTasks(revs[j]), id)
        ts == SnapTasks(revs[k])
    IN  ts[CHOOSE i \in 1..Len(ts) :
                ts[i].id = id /\ \A j \in 1..(i - 1) : ts[j].id # id]

\* C30: deleted_tasks visits the revisions oldest first, so the type and
\* subject it reports for a deleted identifier are those of the
\* chronologically earliest parseable snapshot that holds the identifier.
DeletedOldestFirst ==
    Returned("deleted_tasks") =>
        \A i \in 1..Len(result.value) :
            LET d == result.value[i]
            IN  /\ d.task_type = EarliestSeen(input.revs, d.id).task_type
                /\ d.subject = EarliestSeen(input.revs, d.id).subject

\* ------------------------------------------------ bulk close-by-status

\* the most tasks of a document given to the bulk command
MaxBulkTasks == 3

StatusLineA == PredefinedKeys.status \o <<":", " ", "a">>
StatusLineB == PredefinedKeys.status \o <<":", " ", "b">>

\* task blocks: a heading, with or without a Status property
BulkBlockPool ==
    { <<LineT1a>>,
      <<LineT1a, StatusLineA>>,
      <<LineT1a, StatusLineB>>,
      <<LineB2b, StatusLineA>>,
      <<LineB2b, StatusLineB>> }

\* the statuses the command is given
BulkStatuses == {<<"a">>, <<"b">>, <<"c">>}

RECURSIVE Flatten(_)
Flatten(blocks) ==
    IF blocks = <<>> THEN <<>> ELSE blocks[1] \o Flatten(Tail(blocks))

BulkDocs ==
    {<<TasksLine>> \o Flatten(bs) : bs \in SeqsUpTo(BulkBlockPool, MaxBulkTasks)}

\* Task::status
Status(task) == GetProperty(task.properties, PredefinedKeys.status)

\* tasks_to_close: the identifiers of the tasks with the status, in list order
RECURSIVE TasksToClose(_, _)
TasksToClose(tasks, status) ==
    IF tasks = <<>> THEN <<>>
    ELSE (IF Status(tasks[1]) = <<status>> THEN <<tasks[1].id>> ELSE <<>>)
         \o TasksToClose(Tail(tasks), status)

\* "for id in tasks_to_close { doc.tasks.remove(id); }"
RECURSIVE RemoveEach(_, _)
RemoveEach(tasks, ids) ==
    IF ids = <<>> THEN tasks
    ELSE RemoveEach(RemoveTask(tasks, ids[1]), Tail(ids))

InitBulk ==
    /\ mode = "bulk"
    /\ pc = "ready"
    /\ input \in [lines : BulkDocs, status : BulkStatuses]
    /\ work = [file |-> Unlines(input.lines)]
    /\ result = [kind |-> "none"]

\* the command after the parse of the file
BulkRun(doc) ==
    IF doc.kind # "ok"
    THEN /\ result' = [kind |-> "err"]
         /\ work' = work
    ELSE IF TasksToClose(doc.tasks, input.status) = <<>>
    THEN /\ result' = [kind |-> "no tasks found"]
         /\ work' = work
    ELSE /\ result' = [kind |-> "closed",
                       count |-> Len(TasksToClose(doc.tasks, input.status))]
         /\ work' = [work EXCEPT !.file =
                       Serialize([doc EXCEPT !.tasks =
                          RemoveEach(@, TasksToClose(doc.tasks, input.status))])]

\* "frump bulk close-by-status <status>": read, parse, collect the
\* identifiers, remove them one by one, serialize and write
BulkCloseByStatus ==
    /\ mode = "bulk" /\ pc = "ready"
    /\ BulkRun(Parse(work.file))
    /\ pc' = "done"
    /\ UNCHANGED <<mode, input>>

NextBulk == BulkCloseByStatus

SpecBulk == InitBulk /\ [][NextBulk]_vars

\* the tasks without the status, in their order
RECURSIVE WithoutStatus(_, _)
WithoutStatus(tasks, status) ==
    IF tasks = <<>> THEN <<>>
    ELSE (IF Status(tasks[1]) = <<status>> THEN <<>> ELSE <<tasks[1]>>)
         \o WithoutStatus(Tail(tasks), status)

\* C29: bulk close-by-status removes exactly the tasks whose Status equals the
\* given status and keeps every other task in its original order, also when
\* identifiers are duplicated.
CloseByStatusExact ==
    (mode = "bulk" /\ pc = "done") =>
        Parse(work.file).tasks =
            WithoutStatus(Parse(Unlines(input.lines)).tasks, input.status)

\* ------------------------------------------ close, assign, set, update

\* how many commands are run on the file, one after the other
MaxEdits == 2

EditDocs ==
    { <<TasksLine>>,
      <<TasksLine, LineT0>>,                        \* parse returns Err
      <<TeamLine, LineBadMember>>,                  \* parse panics
      <<TasksLine, LineT1a>>,
      <<TasksLine, LineT1a, StatusLineA>>,
      <<TasksLine, LineT1a, LineB2b>>,
      <<TasksLine, LineT1a, LineT1a>> }

\* the arguments of the commands; <<>> is an option that is not given
EditIds == {0, 1, 3}
EditKeys == {PredefinedKeys.status, <<"s">>}
EditTexts == {<<"z">>}
EditOptions == {<<>>} \cup {<<t>> : t \in EditTexts}

\* what a command has in hand after "parse(&content)?" and "TaskId::new(*id)?"
\* when it looks the task up: "panic" (parse aborted), "err" (a "?" returned),
\* "not found" or "ok"
FindOutcome(doc, id) ==
    IF doc.kind = "panic" THEN "panic"
    ELSE IF doc.kind # "ok" THEN "err"
    ELSE IF ~TaskIdNewOk(id) THEN "err"
    ELSE IF ~HasTask(doc.tasks, id) THEN "not found"
    ELSE "ok"

\* SetOutcome without "PropertyKey::new(property)?"
SetOutcomeAnyKey(doc, id, key) == FindOutcome(doc, id)

\* the same for set, which also validates the key before the look-up
SetOutcome(doc, id, key) ==
    IF doc.kind = "panic" THEN "panic"
    ELSE IF doc.kind # "ok" THEN "err"
    ELSE IF ~TaskIdNewOk(id) THEN "err"
    ELSE IF ~PropertyKeyNewOk(key) THEN "err"
    ELSE IF ~HasTask(doc.tasks, id) THEN "not found"
    ELSE "ok"

\* the position find_by_id_mut returns: the first task with the identifier
FirstWith(tasks, id) ==
    CHOOSE i \in 1..Len(tasks) :
        tasks[i].id = id /\ \A j \in 1..(i - 1) : tasks[j].id # id

\* task.set_property(key, value) on the task found
WithProperty(tasks, id, key, value) ==
    [tasks EXCEPT ![FirstWith(tasks, id)].properties = SetProperty(@, key, value)]

\* the two assignments of update on the task found
WithUpdate(tasks, id, subject, body) ==
    [tasks EXCEPT
        ![FirstWith(tasks, id)].subject = IF subject # <<>> THEN subject[1] ELSE @,
        ![FirstWith(tasks, id)].body = IF body # <<>> THEN body[1] ELSE @]

InitEdit ==
    /\ mode = "edit"
    /\ pc = "ready"
    /\ input \in EditDocs
    /\ work = [file |-> Unlines(input), edits |-> 0]
    /\ result = [kind |-> "none"]

\* the end of a command: with outcome "ok" the text is written to the file;
\* a panic ends the process
EditEnd(call, outcome, text) ==
    /\ pc' = IF outcome = "panic" THEN "panicked" ELSE pc
    /\ work' = [file |-> IF outcome = "ok" THEN text ELSE work.file,
                edits |-> work.edits + 1]
    /\ result' = [kind |-> "called", call |-> call, outcome |-> outcome,
                  before |-> work.file, wrote |-> outcome = "ok"]

CloseWith(call, doc) ==
    EditEnd(call, FindOutcome(doc, call.id),
            IF FindOutcome(doc, call.id) = "ok"
            THEN Serialize([doc EXCEPT !.tasks = RemoveTask(@, call.id)])
            ELSE <<>>)

\* "frump close <id>"
EditClose ==
    /\ mode = "edit" /\ pc = "ready" /\ work.edits < MaxEdits
    /\ \E id \in EditIds :
          CloseWith([cmd |-> "close", id |-> id], Parse(work.file))
    /\ UNCHANGED <<mode, input>>

AssignWith(call, doc) ==
    EditEnd(call, FindOutcome(doc, call.id),
            IF FindOutcome(doc, call.id) = "ok"
            THEN Serialize([doc EXCEPT !.tasks =
                    WithProperty(@, call.id, PredefinedKeys.assigned_to,
                                 call.assignee)])
            ELSE <<>>)

\* "frump assign <id> <assignee>"
EditAssign ==
    /\ mode = "edit" /\ pc = "ready" /\ work.edits < MaxEdits
    /\ \E id \in EditIds, a \in EditTexts :
          AssignWith([cmd |-> "assign", id |-> id, assignee |-> a],
                     Parse(work.file))
    /\ UNCHANGED <<mode, input>>

SetWith(call, doc) ==
    EditEnd(call, SetOutcome(doc, call.id, call.key),
            IF SetOutcome(doc, call.id, call.key) = "ok"
            THEN Serialize([doc EXCEPT !.tasks =
                    WithProperty(@, call.id, call.key, call.value)])
            ELSE <<>>)

\* "frump set <id> <property> <value>"
EditSet ==
    /\ mode = "edit" /\ pc = "ready" /\ work.edits < MaxEdits
    /\ \E id \in EditIds, k \in EditKeys, v \in EditTexts :
          SetWith([cmd |-> "set", id |-> id, key |-> k, value |-> v],
                  Parse(work.file))
    /\ UNCHANGED <<mode, input>>

UpdateWith(call, doc) ==
    IF call.subject = <<>> /\ call.body = <<>>
    THEN EditEnd(call, "nothing given", <<>>)
    ELSE EditEnd(call, FindOutcome(doc, call.id),
                 IF FindOutcome(doc, call.id) = "ok"
                 THEN Serialize([doc EXCEPT !.tasks =
                         WithUpdate(@, call.id, call.subject, call.body)])
                 ELSE <<>>)

\* "frump update <id> [--subject s] [--body b]"
EditUpdate ==
    /\ mode = "edit" /\ pc = "ready" /\ work.edits < MaxEdits
    /\ \E id \in EditIds, s \in EditOptions, b \in EditOptions :
          UpdateWith([cmd |-> "update", id |-> id, subject |-> s, body |-> b],
                     Parse(work.file))
    /\ UNCHANGED <<mode, input>>

NextEdit == EditClose \/ EditAssign \/ EditSet \/ EditUpdate

SpecEdit == InitEdit /\ [][NextEdit]_vars

\* one of the failures the commands share: the document does not parse, the
\* identifier is 0, the key of set is invalid, or no task has the identifier
EditFails(call, text) ==
    \/ Parse(text).kind # "ok"
    \/ call.id = 0
    \/ (call.cmd = "set" /\ ~PropertyKeyNewOk(call.key))
    \/ ~HasTask(Parse(text).tasks, call.id)

\* C26: when the document fails to parse, the identifier is 0, the property
\* key is invalid or no task has the identifier, close, assign, set and update
\* write nothing and leave the file exactly as it was; the file is written
\* only when none of these holds.
NoPartialApplication ==
    (mode = "edit" /\ result.kind = "called") =>
        /\ EditFails(result.call, result.before) =>
              (~result.wrote /\ work.file = result.before)
        /\ result.wrote => ~EditFails(result.call, result.before)
        /\ ~result.wrote => work.file = result.before

\* after a command that changed the file, a set with an invalid key on a task
\* that exists leaves the file as it was
NoPartialApplicationWitness ==
    /\ mode = "edit" /\ result.kind = "called"
    /\ work.edits = 2
    /\ result.before # Unlines(input)
    /\ result.call.cmd = "set"
    /\ ~PropertyKeyNewOk(result.call.key)
    /\ HasTask(Parse(result.before).tasks, result.call.id)
    /\ work.file = result.before

\* ----------------------------- add, close, import --merge, resolve-conflicts
\* ----------------------------- on a file under version control

\* how many commands are run on the file, each followed by a commit
MaxLifeOps == 3

\* the working copy of frump.md when the first command is run
LifeDocs ==
    { <<TasksLine>>,
      <<TasksLine, LineT0>>,                        \* parse returns Err
      <<TasksLine, LineT1a>>,
      <<TasksLine, LineT1a, LineT1a>>,
      <<TasksLine, LineTMax>> }

\* the history when the first command is run: no revision yet, or one
LifeHistories == SeqsUpTo(SnapshotPool, 1)

\* the identifiers close is given
LifeCloseIds == {1, 2}

\* the tasks of the imported document (its identifiers are not used)
ImportPool ==
    { <<TaskNew(7, TaskTypeParse(<<"T">>), <<"i">>)>>,
      <<TaskNew(7, TaskTypeParse(<<"T">>), <<"i">>),
        TaskNew(7, TaskTypeParse(<<"B">>), <<"j">>)>> }

\* repo.max_historical_id() on a history: <<>> for None, <<id>> for Some
MaxHistoricalId(revs) ==
    WalkFrom("max_historical_id", WalkStart("max_historical_id"), 1,
             RevWalk("max_historical_id", revs)).max_id

\* parse aborts on one of the snapshots the walk reads
HistoryPanics(revs) ==
    \E k \in 1..Len(revs) : ReadAndParse(revs[k]).kind = "panic"

\* the identifier add calls next() on: the larger of the historical and the
\* current maximum, or the one there is; <<>> when there is neither (next_id()
\* of an empty collection, which is 1)
AddBase(tasks, max_historical) ==
    IF max_historical # <<>>
    THEN IF tasks # <<>>
         THEN IF max_historical[1] > MaxId(tasks)
              THEN max_historical ELSE <<MaxId(tasks)>>
         ELSE max_historical
    ELSE IF tasks # <<>> THEN <<MaxId(tasks)>> ELSE <<>>

InitLife ==
    /\ mode = "life"
    /\ pc = "ready"
    /\ input \in [lines : LifeDocs, revs : LifeHistories, build : Builds]
    /\ work = [file |-> Unlines(input.lines), revs |-> input.revs, ops |-> 0]
    /\ result = [kind |-> "none", cmd |-> "none", assigned |-> <<>>,
                 before |-> <<>>]

\* a command that returns an error or finds nothing to do: nothing is written
LifeFailed(cmd) ==
    /\ pc' = pc
    /\ work' = [work EXCEPT !.ops = @ + 1]
    /\ result' = [kind |-> "err", cmd |-> cmd, assigned |-> <<>>,
                  before |-> <<>>]

\* a command that panics: the process ends, nothing is written
LifePanicked(cmd, doc) ==
    /\ pc' = "panicked"
    /\ work' = [work EXCEPT !.ops = @ + 1]
    /\ result' = [kind |-> "panic", cmd |-> cmd, assigned |-> <<>>,
                  before |-> doc.tasks]

\* a command that serializes the document with the given tasks and writes it
LifeWrote(cmd, doc, tasks, assigned) ==
    /\ pc' = "changed"
    /\ work' = [work EXCEPT
                  !.file = Serialize([doc EXCEPT !.tasks = tasks]),
                  !.ops = @ + 1]
    /\ result' = [kind |-> "ok", cmd |-> cmd, assigned |-> assigned,
                  before |-> doc.tasks]

\* add from "next_id" on, given the identifier next() is called on
AddRun(doc, base) ==
    IF base = <<>>
    THEN LifeWrote("add", doc,
                   Append(doc.tasks, TaskNew(1, TaskTypeParse(<<"T">>), <<"n">>)),
                   <<1>>)
    ELSE IF input.build = "overflow-checks" /\ TaskIdNextOverflows(base[1])
    THEN LifePanicked("add", doc)
    ELSE LifeWrote("add", doc,
                   Append(doc.tasks,
                          TaskNew(TaskIdNext(base[1]), TaskTypeParse(<<"T">>),
                                  <<"n">>)),
                   <<TaskIdNext(base[1])>>)

\* add after the parse of the file
AddWith(doc, revs) ==
    IF doc.kind # "ok" THEN LifeFailed("add")
    ELSE IF HistoryPanics(revs) THEN LifePanicked("add", doc)
    ELSE AddRun(doc, AddBase(doc.tasks, MaxHistoricalId(revs)))

\* "frump add T n" (no body, assignee or status; the documents have no team)
LifeAdd ==
    /\ mode = "life" /\ pc = "ready" /\ work.ops < MaxLifeOps
    /\ AddWith(Parse(work.file), work.revs)
    /\ UNCHANGED <<mode, input>>

\* close after the parse of the file
LifeCloseWith(doc, id) ==
    IF doc.kind # "ok" \/ ~HasTask(doc.tasks, id) THEN LifeFailed("close")
    ELSE LifeWrote("close", doc, RemoveTask(doc.tasks, id), <<>>)

\* "frump close <id>"
LifeClose ==
    /\ mode = "life" /\ pc = "ready" /\ work.ops < MaxLifeOps
    /\ \E id \in LifeCloseIds : LifeCloseWith(Parse(work.file), id)
    /\ UNCHANGED <<mode, input>>

\* the value next_id starts from, less one: max_id().value(), 0 without tasks
ImportBase(tasks) == IF tasks = <<>> THEN 0 ELSE MaxId(tasks)

\* one of the additions of import --merge does not fit u32: "id.value() + 1"
\* (only with tasks in the document) or the "next_id += 1" after a task
ImportOverflows(tasks, n) ==
    \E j \in (IF tasks = <<>> THEN 1 ELSE 0)..n :
        ImportBase(tasks) + j + 1 > U32Max

\* the values of next_id at the n calls of TaskId::new (the wrapping build)
ImportIds(tasks, n) ==
    [j \in 1..n |-> (ImportBase(tasks) + j) % (U32Max + 1)]

\* the imported tasks under their new identifiers
Merged(tasks, imported) ==
    tasks \o [j \in 1..Len(imported) |->
                [imported[j] EXCEPT !.id = ImportIds(tasks, Len(imported))[j]]]

\* import --merge after the parse of the file
ImportWith(doc, imported) ==
    IF doc.kind # "ok" THEN LifeFailed("import")
    ELSE IF input.build = "overflow-checks"
            /\ ImportOverflows(doc.tasks, Len(imported))
    THEN LifePanicked("import", doc)
    ELSE IF \E j \in 1..Len(imported) :
               ~TaskIdNewOk(ImportIds(doc.tasks, Len(imported))[j])
    THEN LifeFailed("import")
    ELSE LifeWrote("import", doc, Merged(doc.tasks, imported),
                   ImportIds(doc.tasks, Len(imported)))

\* "frump import <file> --merge"
LifeImportMerge ==
    /\ mode = "life" /\ pc = "ready" /\ work.ops < MaxLifeOps
    /\ \E imported \in ImportPool : ImportWith(Parse(work.file), imported)
    /\ UNCHANGED <<mode, input>>

\* the new identifiers of a renumbering, in the order they were given
NewIds(renumbered) == [i \in 1..Len(renumbered) |-> renumbered[i].new_id]

\* resolve-conflicts after the parse of the file, the groups in the given order
LifeResolveWith(doc, order) ==
    IF doc.kind # "ok" \/ Duplicated(doc.tasks) = {}
    THEN LifeFailed("resolve-conflicts")
    ELSE IF input.build = "overflow-checks" /\ RenumberOverflows(doc, order)
    THEN LifePanicked("resolve-conflicts", doc)
    ELSE LifeWrote("resolve-conflicts", doc, Resolved(doc, order).tasks,
                   NewIds(Resolved(doc, order).renumbered))

\* "frump resolve-conflicts"
LifeResolve ==
    /\ mode = "life" /\ pc = "ready" /\ work.ops < MaxLifeOps
    /\ \E order \in GroupOrders(Parse(work.file).tasks) :
          LifeResolveWith(Parse(work.file), order)
    /\ UNCHANGED <<mode, input>>

\* "git add frump.md; git commit": the file becomes the newest revision
\* (kept as its lines, like the other snapshots)
LifeCommit ==
    /\ mode = "life" /\ pc = "changed"
    /\ work' = [work EXCEPT !.revs = Append(@, File(Lines(work.file)))]
    /\ pc' = "ready"
    /\ UNCHANGED <<mode, input, result>>

NextLife ==
    LifeAdd \/ LifeClose \/ LifeImportMerge \/ LifeResolve \/ LifeCommit

SpecLife == InitLife /\ [][NextLife]_vars

\* the identifiers of the document before the command and of every parseable
\* snapshot committed before it
KnownIds == TaskIds(result.before) \cup HistoricalIds(work.revs)

\* C23: over any sequence of add, close, import --merge and resolve-conflicts,
\* each followed by a commit, an identifier the tool assigns to a new or
\* renumbered task is neither in the document as it was nor in any snapshot
\* committed earlier.
IdsUniqueAcrossHistory ==
    (mode = "life" /\ pc = "changed") =>
        \A i \in 1..Len(result.assigned) : result.assigned[i] \notin KnownIds

\* C25: add allocates max(H, C) + 1 (1 with neither), an identifier greater
\* than every identifier of the document and of the parseable snapshots, and
\* appends the new task to the otherwise unchanged task list.
AddAllocatesNext ==
    (mode = "life" /\ result.cmd = "add" /\ pc \in {"changed", "panicked"}) =>
        /\ result.kind = "ok"
        /\ result.assigned =
              <<(IF KnownIds = {} THEN 0
                 ELSE CHOOSE m \in KnownIds : \A x \in KnownIds : x <= m) + 1>>
        /\ \A x \in KnownIds : result.assigned[1] > x
        /\ Parse(work.file).kind = "ok"
        /\ Parse(work.file).tasks =
              Append(result.before,
                     TaskNew(result.assigned[1], TaskTypeParse(<<"T">>), <<"n">>))

====
